---------------------------- MODULE Spec2Model ----------------------------
(***************************************************************************)
(* Klondike solitaire rules engine (Game) of wy-solo: deck, deal, draw /   *)
(* reset, moveCards, tryAutoMove, the undo history, and the commands the   *)
(* input layer issues.  Piles are sequences whose last element is the top  *)
(* card, as in the source; pile and card indices inside location           *)
(* descriptors are 0-based, as in the source.                              *)
(***************************************************************************)
EXTENDS Integers, Sequences, FiniteSets, TLC

VARIABLES
    state,      \* Game.state: stock, waste, foundations, tableau, history, moves, score
    settings,   \* Game.settings: drawCount, scoring
    call,       \* the engine command called last
    ret,        \* the value that command returned
    seq,        \* the command sequence under observation (start state, counts)
    seededRandom, \* Game.seededRandom: seed
    drag,       \* Drag: isDragging, moved, sourceLocation, draggedCardElements
    WinAnimation, \* WinAnimation: isRunning, particles, trails, onComplete; its timers and frame
    modal       \* the modal UI.showModal shows, with the statistics written into it

vars == <<state, settings, call, ret, seq, seededRandom, drag, WinAnimation, modal>>

(***************************************************************************)
(* Bounds of the model.  The source plays 13 ranks on 7 tableau piles; the *)
(* model plays MaxRank ranks (the highest is the King) on NumTableau piles.*)
(***************************************************************************)
MaxRank == 3

NumTableau == 3

MaxMoves == 5

MaxWasteMoves == 9

MaxExtra == 1

MaxEngineMoves == 3

MaxRawMoves == 2

MaxInputMoves == 5

MaxWinMoves == 3

HISTORY_LIMIT == 50

SUITS == <<"hearts", "diamonds", "clubs", "spades">>

RED_SUITS == {"hearts", "diamonds"}

BLACK_SUITS == {"clubs", "spades"}

KING == MaxRank

Ranks == 1..MaxRank

Foundations == 0..(Len(SUITS) - 1)

Tableaus == 0..(NumTableau - 1)

Min(a, b) == IF a < b THEN a ELSE b

Max(a, b) == IF a > b THEN a ELSE b

Last(arr) == arr[Len(arr)]

Front(arr) == SubSeq(arr, 1, Len(arr) - 1)

RECURSIVE Reverse(_)
Reverse(arr) ==
    IF arr = <<>> THEN <<>> ELSE Append(Reverse(Tail(arr)), Head(arr))

(***************************************************************************)
(* JavaScript values the commands return.                                  *)
(***************************************************************************)
JsTrue == [type |-> "boolean", value |-> TRUE]

JsFalse == [type |-> "boolean", value |-> FALSE]

JsNull == [type |-> "null"]

\* Array.prototype.pop on an empty array, and what JSON.stringify makes of it
Undefined == [suit |-> "undefined", rank |-> 0, faceUp |-> FALSE, id |-> <<"undefined", 0>>]

NullCard == [suit |-> "null", rank |-> 0, faceUp |-> FALSE, id |-> <<"null", 0>>]

(***************************************************************************)
(* Cards and the deck.                                                     *)
(***************************************************************************)
createCard(suit, rank) ==
    [suit |-> suit, rank |-> rank, faceUp |-> FALSE, id |-> <<suit, rank>>]

CardIds == {<<SUITS[i], r>> : i \in 1..Len(SUITS), r \in Ranks}

\* suit-major, rank-ascending
createDeck ==
    [k \in 1..(Len(SUITS) * MaxRank) |->
        createCard(SUITS[((k - 1) \div MaxRank) + 1], ((k - 1) % MaxRank) + 1)]

Swap(arr, i, j) == [arr EXCEPT ![i] = arr[j], ![j] = arr[i]]

\* The loop of shuffle: i runs from the last index down to 1 (0-based), the
\* swap index j = nextInt(i + 1) is read from the random source rnd.
RECURSIVE shuffleFrom(_, _, _)
shuffleFrom(shuffled, i, rnd) ==
    IF i > 0
    THEN shuffleFrom(Swap(shuffled, i + 1, rnd[i] + 1), i - 1, rnd)
    ELSE shuffled

shuffle(deck, rnd) == shuffleFrom(deck, Len(deck) - 1, rnd)

\* The random sources the model draws the deals from.  A tape lists the
\* answers of the source: nextInt(i + 1) is tape[i], a value in 0..i, and 0
\* once the tape is exhausted.
RandomTapes ==
    { <<1, 0, 2, 4, 2, 3, 4, 5, 0, 1, 2>>,
      <<0, 0, 3, 0, 4, 2, 6, 7, 5, 7, 0>> }

RandomSource(tape) ==
    [i \in 1..(Len(SUITS) * MaxRank - 1) |->
        IF i <= Len(tape) THEN Min(tape[i], i) ELSE 0]

RandomSources == {RandomSource(tape) : tape \in RandomTapes}

(***************************************************************************)
(* newGame: shuffle, deal column c its c + 1 cards, the rest is the stock. *)
(***************************************************************************)
\* 0-based index in the deck of the card dealt to (col, row)
DealIndex(col, row) == (col * (col + 1)) \div 2 + row

\* newGame that turns the first card of each column face-up
newGameFirstUp(rnd) ==
    LET deck == shuffle(createDeck, rnd)
        cardIndex == DealIndex(NumTableau, 0)
    IN  [stock       |-> SubSeq(deck, cardIndex + 1, Len(deck)),
         waste       |-> <<>>,
         foundations |-> [f \in Foundations |-> <<>>],
         tableau     |-> [col \in Tableaus |->
                            [row \in 1..(col + 1) |->
                                [deck[DealIndex(col, row - 1) + 1]
                                    EXCEPT !.faceUp = (row - 1 = 0)]]],
         history     |-> <<>>,
         moves       |-> 0,
         score       |-> 0]

newGame(rnd) ==
    LET deck == shuffle(createDeck, rnd)
        cardIndex == DealIndex(NumTableau, 0)
    IN  [stock       |-> SubSeq(deck, cardIndex + 1, Len(deck)),
         waste       |-> <<>>,
         foundations |-> [f \in Foundations |-> <<>>],
         tableau     |-> [col \in Tableaus |->
                            [row \in 1..(col + 1) |->
                                [deck[DealIndex(col, row - 1) + 1]
                                    EXCEPT !.faceUp = (row - 1 = col)]]],
         history     |-> <<>>,
         moves       |-> 0,
         score       |-> 0]

(***************************************************************************)
(* Game.seededRandom.  seed * 1103515245 + 12345 is computed in IEEE 754   *)
(* doubles: the product and the sum are each rounded to 53 significant     *)
(* bits (round to nearest, ties to even) before & 0x7fffffff keeps the low *)
(* 31 bits.  A number too wide for the checker's integers is held as its   *)
(* four 16-bit limbs, least significant first.  An intermediate result is  *)
(* bound as the element of a one-element set, which computes it once.      *)
(***************************************************************************)
WINNABLE_SEEDS == {11982, 15196, 17392, 25147}

\* the base of the limbs
Limb == 2^16

\* limbs with every carry passed on
Normalize(x) ==
    LET c1 == x[1] \div Limb
        c2 == (x[2] + c1) \div Limb
        c3 == (x[3] + c2) \div Limb
    IN  <<x[1] % Limb, (x[2] + c1) % Limb, (x[3] + c2) % Limb, x[4] + c3>>

\* seed * 1103515245, exactly
Product(seed) ==
    LET a0 == 1103515245 % Limb
        a1 == 1103515245 \div Limb
        s0 == seed % Limb
        s1 == seed \div Limb
    IN  Normalize(<<s0 * a0, s1 * a0 + s0 * a1, s1 * a1, 0>>)

\* the number of significant bits
BitLength(x) ==
    LET top == IF x[4] # 0 THEN 4 ELSE IF x[3] # 0 THEN 3 ELSE IF x[2] # 0 THEN 2 ELSE 1
        bits == CHOOSE b \in 0..16 : x[top] < 2^b /\ (b = 0 \/ x[top] >= 2^(b - 1))
    IN  16 * (top - 1) + bits

\* the nearest double: the bits below the 53 most significant are rounded
\* away, a tie goes to the even neighbour
ToDouble(x) ==
    IF BitLength(x) <= 53 THEN x
    ELSE LET unit == 2^(BitLength(x) - 53)
             rest == x[1] % unit
             kept == x[1] - rest
             up == \/ 2 * rest > unit
                   \/ 2 * rest = unit /\ (kept \div unit) % 2 = 1
         IN  Normalize([x EXCEPT ![1] = IF up THEN kept + unit ELSE kept])

\* x + y for a small y, as the double addition gives it
Plus(x, y) == ToDouble(Normalize([x EXCEPT ![1] = @ + y]))

\* x & 0x7fffffff
Low31(x) == (x[2] % 32768) * Limb + x[1]

setSeed(gen, seed) == [gen EXCEPT !.seed = seed]

\* the value returned is the quotient seed / 0x7fffffff, held as its
\* numerator and denominator
next(gen) ==
    CHOOSE r \in {[gen |-> [gen EXCEPT !.seed = seed],
                   ret |-> [type |-> "number", num |-> seed, den |-> 2147483647]] :
                      seed \in {Low31(Plus(ToDouble(Product(gen.seed)), 12345))}} : TRUE

\* Math.floor(this.next() * max): with v = num / (2^31 - 1) and
\* num * max = h * 2^31 + l, the floor is h, or h + 1 when h + l >= 2^31 - 1
nextInt(gen, max) ==
    CHOOSE out \in
        {LET n0 == (r.ret.num % Limb) * max
             n1 == (r.ret.num \div Limb) * max + n0 \div Limb
             h == n1 \div 32768
             l == (n1 % 32768) * Limb + (n0 % Limb)
         IN  [gen |-> r.gen,
              ret |-> IF l >= r.ret.den - h THEN h + 1 ELSE h] : r \in {next(gen)}} : TRUE

\* The random source shuffle reads from the generator: the answers of
\* nextInt(i + 1) for i from the last index of the deck down to 1.
RECURSIVE seededSource(_, _, _)
seededSource(gen, i, rnd) ==
    IF i > 0
    THEN CHOOSE source \in
            {seededSource(r.gen, i - 1, [rnd EXCEPT ![i] = r.ret]) :
                r \in {nextInt(gen, i + 1)}} : TRUE
    ELSE [gen |-> gen, rnd |-> rnd]

\* newGame with a shuffle that does not set the seed
newGameSeededNoSetSeed(gen, seed) ==
    LET last == Len(createDeck) - 1
    IN  CHOOSE r \in {[gen |-> source.gen, state |-> newGame(source.rnd)] :
                        source \in {seededSource(gen, last,
                                                 [i \in 1..last |-> 0])}} : TRUE

\* newGame with the seed getRandomWinnableSeed picked: shuffle sets the seed
\* and draws the swaps from the generator
newGameSeeded(gen, seed) ==
    LET last == Len(createDeck) - 1
    IN  CHOOSE r \in {[gen |-> source.gen, state |-> newGame(source.rnd)] :
                        source \in {seededSource(setSeed(gen, seed), last,
                                                 [i \in 1..last |-> 0])}} : TRUE

(***************************************************************************)
(* History: saveState pushes JSON.stringify of the piles, moves and score; *)
(* undo pops and JSON.parses it.  A JSON text is modelled as a string value *)
(* tagged with what it denotes: stringify turns an undefined array element *)
(* into null, every other element (a card: strings, a number, a boolean)   *)
(* denotes itself.                                                         *)
(***************************************************************************)
arrayToJSON(arr) ==
    [i \in DOMAIN arr |-> IF arr[i] = Undefined THEN NullCard ELSE arr[i]]

JSONstringify(v) ==
    [type |-> "string",
     json |-> [stock       |-> arrayToJSON(v.stock),
               waste       |-> arrayToJSON(v.waste),
               foundations |-> [f \in DOMAIN v.foundations |->
                                   arrayToJSON(v.foundations[f])],
               tableau     |-> [p \in DOMAIN v.tableau |-> arrayToJSON(v.tableau[p])],
               moves       |-> v.moves,
               score       |-> v.score]]

JSONparse(text) == text.json

\* the object saveState serialises
Snapshot(s) ==
    [stock       |-> s.stock,
     waste       |-> s.waste,
     foundations |-> s.foundations,
     tableau     |-> s.tableau,
     moves       |-> s.moves,
     score       |-> s.score]

\* saveState that pops the snapshot just pushed when the history is full
saveStateDropNewest(s) ==
    LET pushed == Append(s.history, JSONstringify(Snapshot(s)))
    IN  [s EXCEPT !.history =
            IF Len(pushed) > HISTORY_LIMIT THEN Front(pushed) ELSE pushed]

saveState(s) ==
    LET pushed == Append(s.history, JSONstringify(Snapshot(s)))
    IN  [s EXCEPT !.history =
            IF Len(pushed) > HISTORY_LIMIT THEN Tail(pushed) ELSE pushed]

\* undo that does not restore the move counter
undoKeepsMoves(s) ==
    IF Len(s.history) = 0
    THEN [state |-> s, ret |-> JsFalse]
    ELSE LET previous == JSONparse(Last(s.history))
         IN  [state |-> [s EXCEPT !.history     = Front(s.history),
                                  !.stock       = previous.stock,
                                  !.waste       = previous.waste,
                                  !.foundations = previous.foundations,
                                  !.tableau     = previous.tableau,
                                  !.score       = previous.score],
              ret   |-> JsTrue]

\* undo that reports success on an empty history
undoAlwaysTrue(s) ==
    IF Len(s.history) = 0
    THEN [state |-> s, ret |-> JsTrue]
    ELSE LET previous == JSONparse(Last(s.history))
         IN  [state |-> [s EXCEPT !.history     = Front(s.history),
                                  !.stock       = previous.stock,
                                  !.waste       = previous.waste,
                                  !.foundations = previous.foundations,
                                  !.tableau     = previous.tableau,
                                  !.moves       = previous.moves,
                                  !.score       = previous.score],
              ret   |-> JsTrue]

undo(s) ==
    IF Len(s.history) = 0
    THEN [state |-> s, ret |-> JsFalse]
    ELSE LET previous == JSONparse(Last(s.history))
         IN  [state |-> [s EXCEPT !.history     = Front(s.history),
                                  !.stock       = previous.stock,
                                  !.waste       = previous.waste,
                                  !.foundations = previous.foundations,
                                  !.tableau     = previous.tableau,
                                  !.moves       = previous.moves,
                                  !.score       = previous.score],
              ret   |-> JsTrue]

(***************************************************************************)
(* Legality predicates.                                                    *)
(***************************************************************************)
isRed(card) == card.suit \in RED_SUITS

areOppositeColors(card1, card2) == isRed(card1) # isRed(card2)

\* SUITS.indexOf(suit)
getFoundationIndex(suit) ==
    IF \E i \in Foundations : SUITS[i + 1] = suit
    THEN CHOOSE i \in Foundations : SUITS[i + 1] = suit
    ELSE -1

\* canPlaceOnFoundation without the check of the suit
canPlaceOnFoundationAnySuit(s, card, foundationIndex) ==
    LET foundation == s.foundations[foundationIndex]
    IN  IF Len(foundation) = 0 THEN card.rank = 1
        ELSE card.rank = Last(foundation).rank + 1

canPlaceOnFoundation(s, card, foundationIndex) ==
    LET foundation == s.foundations[foundationIndex]
        expectedSuit == SUITS[foundationIndex + 1]
    IN  IF card.suit # expectedSuit THEN FALSE
        ELSE IF Len(foundation) = 0 THEN card.rank = 1
        ELSE card.rank = Last(foundation).rank + 1

\* canPlaceOnTableau without the check of the colours
canPlaceOnTableauAnyColor(s, card, tableauIndex) ==
    LET pile == s.tableau[tableauIndex]
    IN  IF Len(pile) = 0 THEN card.rank = KING
        ELSE LET topCard == Last(pile)
             IN  /\ topCard.faceUp
                 /\ card.rank = topCard.rank - 1

canPlaceOnTableau(s, card, tableauIndex) ==
    LET pile == s.tableau[tableauIndex]
    IN  IF Len(pile) = 0 THEN card.rank = KING
        ELSE LET topCard == Last(pile)
             IN  /\ topCard.faceUp
                 /\ areOppositeColors(card, topCard)
                 /\ card.rank = topCard.rank - 1

(***************************************************************************)
(* drawFromStock: reset when the stock is empty, draw otherwise.           *)
(***************************************************************************)
\* waste.reverse().map(card => { card.faceUp = false; return card; })
\* the reset without reverse()
resetCardsNoReverse(waste) ==
    [i \in DOMAIN waste |-> [waste[i] EXCEPT !.faceUp = FALSE]]

resetCards(waste) ==
    LET reversed == Reverse(waste)
    IN  [i \in DOMAIN reversed |-> [reversed[i] EXCEPT !.faceUp = FALSE]]

\* for (i = 0; i < count; i++) { card = stock.pop(); card.faceUp = true; waste.push(card) }
\* the loop without card.faceUp = true
RECURSIVE drawLoopNoFlip(_, _)
drawLoopNoFlip(s, count) ==
    IF count = 0 THEN s
    ELSE drawLoopNoFlip([s EXCEPT !.stock = Front(s.stock),
                                  !.waste = Append(s.waste, Last(s.stock))],
                        count - 1)

RECURSIVE drawLoop(_, _)
drawLoop(s, count) ==
    IF count = 0 THEN s
    ELSE LET card == [Last(s.stock) EXCEPT !.faceUp = TRUE]
         IN  drawLoop([s EXCEPT !.stock = Front(s.stock),
                                !.waste = Append(s.waste, card)],
                      count - 1)

\* drawFromStock that saves the state after the draw instead of before it
drawFromStockSavesLate(s) ==
    IF Len(s.stock) = 0
    THEN IF Len(s.waste) = 0
         THEN [state |-> s, ret |-> JsFalse]
         ELSE LET s1 == saveState(s)
                  s2 == [s1 EXCEPT !.stock = resetCards(s1.waste),
                                   !.waste = <<>>]
                  s3 == IF settings.scoring = "vegas"
                        THEN [s2 EXCEPT !.score = Max(0, s2.score - 100)]
                        ELSE s2
              IN  [state |-> s3, ret |-> JsTrue]
    ELSE LET count == Min(settings.drawCount, Len(s.stock))
             s1 == drawLoop(s, count)
             s2 == saveState(s1)
         IN  [state |-> [s2 EXCEPT !.moves = s2.moves + 1], ret |-> JsTrue]

\* drawFromStock without the check of an empty waste: it resets whenever
\* the stock is empty
drawFromStockAlwaysResets(s) ==
    IF Len(s.stock) = 0
    THEN LET s1 == saveState(s)
             s2 == [s1 EXCEPT !.stock = resetCards(s1.waste),
                              !.waste = <<>>]
             s3 == IF settings.scoring = "vegas"
                   THEN [s2 EXCEPT !.score = Max(0, s2.score - 100)]
                   ELSE s2
         IN  [state |-> s3, ret |-> JsTrue]
    ELSE LET s1 == saveState(s)
             count == Min(settings.drawCount, Len(s1.stock))
             s2 == drawLoop(s1, count)
         IN  [state |-> [s2 EXCEPT !.moves = s2.moves + 1], ret |-> JsTrue]

drawFromStock(s) ==
    IF Len(s.stock) = 0
    THEN IF Len(s.waste) = 0
         THEN [state |-> s, ret |-> JsFalse]
         ELSE LET s1 == saveState(s)
                  s2 == [s1 EXCEPT !.stock = resetCards(s1.waste),
                                   !.waste = <<>>]
                  s3 == IF settings.scoring = "vegas"
                        THEN [s2 EXCEPT !.score = Max(0, s2.score - 100)]
                        ELSE s2
              IN  [state |-> s3, ret |-> JsTrue]
    ELSE LET s1 == saveState(s)
             count == Min(settings.drawCount, Len(s1.stock))
             s2 == drawLoop(s1, count)
         IN  [state |-> [s2 EXCEPT !.moves = s2.moves + 1], ret |-> JsTrue]

(***************************************************************************)
(* findCard: waste, then foundations 0..3, then tableau piles; the stock   *)
(* is not searched.                                                        *)
(***************************************************************************)
\* Array.prototype.findIndex(c => c.id === cardId): 0-based, -1 when absent
findIndex(arr, cardId) ==
    IF \E i \in DOMAIN arr : arr[i].id = cardId
    THEN (CHOOSE i \in DOMAIN arr :
            /\ arr[i].id = cardId
            /\ \A k \in 1..(i - 1) : arr[k].id # cardId) - 1
    ELSE -1

findCard(s, cardId) ==
    IF findIndex(s.waste, cardId) # -1
    THEN [location |-> "waste", index |-> findIndex(s.waste, cardId)]
    ELSE IF \E i \in Foundations : findIndex(s.foundations[i], cardId) # -1
    THEN LET i == CHOOSE i \in Foundations :
                    /\ findIndex(s.foundations[i], cardId) # -1
                    /\ \A k \in 0..(i - 1) : findIndex(s.foundations[k], cardId) = -1
         IN  [location |-> "foundation", pileIndex |-> i,
              index |-> findIndex(s.foundations[i], cardId)]
    ELSE IF \E i \in Tableaus : findIndex(s.tableau[i], cardId) # -1
    THEN LET i == CHOOSE i \in Tableaus :
                    /\ findIndex(s.tableau[i], cardId) # -1
                    /\ \A k \in 0..(i - 1) : findIndex(s.tableau[k], cardId) = -1
         IN  [location |-> "tableau", pileIndex |-> i,
              index |-> findIndex(s.tableau[i], cardId)]
    ELSE JsNull

getTopWasteCard(s) == IF Len(s.waste) = 0 THEN JsNull ELSE Last(s.waste)

(***************************************************************************)
(* moveCards: executes the move it is given, without checking it.          *)
(***************************************************************************)
\* Array.prototype.pop: the last element, undefined when the array is empty
popped(arr) == IF Len(arr) = 0 THEN Undefined ELSE Last(arr)

\* a pop that reads the last element and leaves it in the array
afterPopKeeps(arr) == arr

afterPop(arr) == IF Len(arr) = 0 THEN arr ELSE Front(arr)

\* the source pile with its new top card turned face-up
\* a source pile whose new top card is left as it lies
flipTopLeaves(pile) == pile

flipTop(pile) == [pile EXCEPT ![Len(pile)].faceUp = TRUE]

\* moveCards that awards a foundation placement 10 points under 'vegas' too
moveCardsVegasTen(s, fromLocation, toLocation) ==
    LET s1 == saveState(s)
        fromPile == IF fromLocation.location = "waste" THEN s1.waste
                    ELSE IF fromLocation.location = "foundation"
                         THEN s1.foundations[fromLocation.pileIndex]
                    ELSE IF fromLocation.location = "tableau"
                         THEN s1.tableau[fromLocation.pileIndex]
                    ELSE <<>>
        \* the cards removed from the source
        cards == IF fromLocation.location \in {"waste", "foundation"}
                 THEN <<popped(fromPile)>>
                 ELSE IF fromLocation.location = "tableau"
                      THEN SubSeq(fromPile, fromLocation.index + 1, Len(fromPile))
                 ELSE <<>>
        \* what tableau.splice(index) leaves in the source pile
        rest == IF fromLocation.location = "tableau"
                THEN SubSeq(fromPile, 1, Min(fromLocation.index, Len(fromPile)))
                ELSE <<>>
        sourceFlipped == /\ fromLocation.location = "tableau"
                         /\ Len(rest) > 0
                         /\ ~Last(rest).faceUp
        s2 == IF fromLocation.location = "waste"
              THEN [s1 EXCEPT !.waste = afterPop(fromPile)]
              ELSE IF fromLocation.location = "foundation"
              THEN [s1 EXCEPT !.foundations[fromLocation.pileIndex] = afterPop(fromPile)]
              ELSE IF fromLocation.location = "tableau"
              THEN [s1 EXCEPT !.tableau[fromLocation.pileIndex] =
                        IF sourceFlipped THEN flipTop(rest) ELSE rest]
              ELSE s1
        s3 == IF toLocation.location = "foundation"
              THEN [s2 EXCEPT
                      !.foundations[toLocation.pileIndex] = @ \o cards,
                      !.score = IF settings.scoring = "standard" THEN @ + 10
                                ELSE IF settings.scoring = "vegas" THEN @ + 10
                                ELSE @]
              ELSE IF toLocation.location = "tableau"
              THEN [s2 EXCEPT
                      !.tableau[toLocation.pileIndex] = @ \o cards,
                      !.score = IF sourceFlipped /\ settings.scoring = "standard"
                                THEN @ + 5 ELSE @]
              ELSE s2
    IN  [state |-> [s3 EXCEPT !.moves = s3.moves + 1], ret |-> JsTrue]

moveCards(s, fromLocation, toLocation) ==
    LET s1 == saveState(s)
        fromPile == IF fromLocation.location = "waste" THEN s1.waste
                    ELSE IF fromLocation.location = "foundation"
                         THEN s1.foundations[fromLocation.pileIndex]
                    ELSE IF fromLocation.location = "tableau"
                         THEN s1.tableau[fromLocation.pileIndex]
                    ELSE <<>>
        \* the cards removed from the source
        cards == IF fromLocation.location \in {"waste", "foundation"}
                 THEN <<popped(fromPile)>>
                 ELSE IF fromLocation.location = "tableau"
                      THEN SubSeq(fromPile, fromLocation.index + 1, Len(fromPile))
                 ELSE <<>>
        \* what tableau.splice(index) leaves in the source pile
        rest == IF fromLocation.location = "tableau"
                THEN SubSeq(fromPile, 1, Min(fromLocation.index, Len(fromPile)))
                ELSE <<>>
        sourceFlipped == /\ fromLocation.location = "tableau"
                         /\ Len(rest) > 0
                         /\ ~Last(rest).faceUp
        s2 == IF fromLocation.location = "waste"
              THEN [s1 EXCEPT !.waste = afterPop(fromPile)]
              ELSE IF fromLocation.location = "foundation"
              THEN [s1 EXCEPT !.foundations[fromLocation.pileIndex] = afterPop(fromPile)]
              ELSE IF fromLocation.location = "tableau"
              THEN [s1 EXCEPT !.tableau[fromLocation.pileIndex] =
                        IF sourceFlipped THEN flipTop(rest) ELSE rest]
              ELSE s1
        s3 == IF toLocation.location = "foundation"
              THEN [s2 EXCEPT
                      !.foundations[toLocation.pileIndex] = @ \o cards,
                      !.score = IF settings.scoring = "standard" THEN @ + 10
                                ELSE IF settings.scoring = "vegas" THEN @ + 5
                                ELSE @]
              ELSE IF toLocation.location = "tableau"
              THEN [s2 EXCEPT
                      !.tableau[toLocation.pileIndex] = @ \o cards,
                      !.score = IF sourceFlipped /\ settings.scoring = "standard"
                                THEN @ + 5 ELSE @]
              ELSE s2
    IN  [state |-> [s3 EXCEPT !.moves = s3.moves + 1], ret |-> JsTrue]

(***************************************************************************)
(* tryAutoMove: foundation first (single cards only), then the first       *)
(* tableau pile that accepts the card.                                     *)
(***************************************************************************)
cardAt(s, location) ==
    IF location.location = "waste" THEN s.waste[location.index + 1]
    ELSE IF location.location = "foundation"
         THEN s.foundations[location.pileIndex][location.index + 1]
    ELSE s.tableau[location.pileIndex][location.index + 1]

\* the tableau piles the loop of tryAutoMove would accept the card on
autoTableauTargets(s, location, card) ==
    {i \in Tableaus :
        /\ ~(location.location = "tableau" /\ location.pileIndex = i)
        /\ canPlaceOnTableau(s, card, i)}

\* tryAutoMove that saves the state before it looks for a destination
tryAutoMoveSavesFirst(s, cardId) ==
    LET location == findCard(s, cardId)
    IN  IF location = JsNull THEN [state |-> s, ret |-> JsNull]
        ELSE
        LET card == cardAt(s, location)
            isSingleCard ==
                \/ location.location = "waste"
                \/ /\ location.location = "tableau"
                   /\ location.index = Len(s.tableau[location.pileIndex]) - 1
            foundationIndex == getFoundationIndex(card.suit)
            targets == autoTableauTargets(s, location, card)
        IN  IF location.location = "tableau" /\ ~card.faceUp
            THEN [state |-> s, ret |-> JsNull]
            ELSE IF /\ location.location # "foundation"
                    /\ isSingleCard
                    /\ canPlaceOnFoundation(s, card, foundationIndex)
            THEN LET to == [location |-> "foundation", pileIndex |-> foundationIndex]
                 IN  [state |-> moveCards(s, location, to).state, ret |-> to]
            ELSE IF targets # {}
            THEN LET i == CHOOSE i \in targets : \A k \in targets : i <= k
                     to == [location |-> "tableau", pileIndex |-> i]
                 IN  [state |-> moveCards(s, location, to).state, ret |-> to]
            ELSE [state |-> saveState(s), ret |-> JsNull]

tryAutoMove(s, cardId) ==
    LET location == findCard(s, cardId)
    IN  IF location = JsNull THEN [state |-> s, ret |-> JsNull]
        ELSE
        LET card == cardAt(s, location)
            isSingleCard ==
                \/ location.location = "waste"
                \/ /\ location.location = "tableau"
                   /\ location.index = Len(s.tableau[location.pileIndex]) - 1
            foundationIndex == getFoundationIndex(card.suit)
            targets == autoTableauTargets(s, location, card)
        IN  IF location.location = "tableau" /\ ~card.faceUp
            THEN [state |-> s, ret |-> JsNull]
            ELSE IF /\ location.location # "foundation"
                    /\ isSingleCard
                    /\ canPlaceOnFoundation(s, card, foundationIndex)
            THEN LET to == [location |-> "foundation", pileIndex |-> foundationIndex]
                 IN  [state |-> moveCards(s, location, to).state, ret |-> to]
            ELSE IF targets # {}
            THEN LET i == CHOOSE i \in targets : \A k \in targets : i <= k
                     to == [location |-> "tableau", pileIndex |-> i]
                 IN  [state |-> moveCards(s, location, to).state, ret |-> to]
            ELSE [state |-> s, ret |-> JsNull]

(***************************************************************************)
(* isWon: every foundation holds a whole suit (13 cards in the source,     *)
(* MaxRank here).  App.simulateWin, the debug key W: fills the foundations *)
(* and clears the other piles; history, moves and score stay.              *)
(***************************************************************************)
\* isWon with some() in place of every()
isWonSome(s) == \E f \in DOMAIN s.foundations : Len(s.foundations[f]) = MaxRank

isWon(s) == \A f \in DOMAIN s.foundations : Len(s.foundations[f]) = MaxRank

simulateWin(s) ==
    [s EXCEPT !.foundations = [f \in Foundations |->
                                  [rank \in 1..MaxRank |->
                                      [createCard(SUITS[f + 1], rank)
                                          EXCEPT !.faceUp = TRUE]]],
              !.stock       = <<>>,
              !.waste       = <<>>,
              !.tableau     = [p \in Tableaus |-> <<>>]]

(***************************************************************************)
(* hasValidMoves: a draw or a reset counts as a move; then the waste card, *)
(* then every face-up tableau card (the foundation for the top card of a   *)
(* pile only, the other tableau piles for every face-up card).             *)
(***************************************************************************)
\* hasValidMoves without the foundation check of the top cards
hasValidMovesNoFoundation(s) ==
    IF Len(s.stock) > 0 \/ Len(s.waste) > 0 THEN TRUE
    ELSE
    LET wasteCard == getTopWasteCard(s)
    IN  IF /\ wasteCard # JsNull
           /\ \/ canPlaceOnFoundation(s, wasteCard, getFoundationIndex(wasteCard.suit))
              \/ \E i \in Tableaus : canPlaceOnTableau(s, wasteCard, i)
        THEN TRUE
        ELSE \E i \in Tableaus : \E j \in 0..(Len(s.tableau[i]) - 1) :
                LET card == s.tableau[i][j + 1]
                IN  /\ card.faceUp
                    /\ \E k \in Tableaus : k # i /\ canPlaceOnTableau(s, card, k)

hasValidMoves(s) ==
    IF Len(s.stock) > 0 \/ Len(s.waste) > 0 THEN TRUE
    ELSE
    LET wasteCard == getTopWasteCard(s)
    IN  IF /\ wasteCard # JsNull
           /\ \/ canPlaceOnFoundation(s, wasteCard, getFoundationIndex(wasteCard.suit))
              \/ \E i \in Tableaus : canPlaceOnTableau(s, wasteCard, i)
        THEN TRUE
        ELSE \E i \in Tableaus : \E j \in 0..(Len(s.tableau[i]) - 1) :
                LET card == s.tableau[i][j + 1]
                IN  /\ card.faceUp
                    /\ \/ /\ j = Len(s.tableau[i]) - 1
                          /\ canPlaceOnFoundation(s, card, getFoundationIndex(card.suit))
                       \/ \E k \in Tableaus : k # i /\ canPlaceOnTableau(s, card, k)

(***************************************************************************)
(* getHint: the first move found, in the order foundation moves (waste     *)
(* card, then tableau top cards), waste card to a tableau pile, tableau to *)
(* tableau, draw, reset.  A hint is the object the source returns; a       *)
(* property the source does not set is absent from it.                     *)
(***************************************************************************)
\* the least element of a non-empty set of numbers: the first index a loop
\* running upwards meets
First(S) == CHOOSE x \in S : \A y \in S : x <= y

\* the greatest element: the first index a loop running downwards meets
FirstDown(S) == CHOOSE x \in S : \A y \in S : x >= y

\* priority 1: the waste card to its foundation
hintWasteToFoundation(s) ==
    LET wasteCard == getTopWasteCard(s)
        fi == getFoundationIndex(wasteCard.suit)
    IN  IF wasteCard # JsNull /\ canPlaceOnFoundation(s, wasteCard, fi)
        THEN [from |-> [cardId |-> wasteCard.id, location |-> "waste"],
              to   |-> [location |-> "foundation", pileIndex |-> fi]]
        ELSE JsNull

\* the tableau piles whose top card is face-up and legal on its foundation
foundationPiles(s) ==
    {i \in Tableaus :
        /\ Len(s.tableau[i]) # 0
        /\ Last(s.tableau[i]).faceUp
        /\ canPlaceOnFoundation(s, Last(s.tableau[i]),
                                getFoundationIndex(Last(s.tableau[i]).suit))}

\* the top card of the first such pile to its foundation
hintTableauToFoundation(s) ==
    IF foundationPiles(s) = {} THEN JsNull
    ELSE LET i == First(foundationPiles(s))
             topCard == Last(s.tableau[i])
         IN  [from |-> [cardId |-> topCard.id, location |-> "tableau", pileIndex |-> i],
              to   |-> [location |-> "foundation",
                        pileIndex |-> getFoundationIndex(topCard.suit)]]

\* priority 2 with the last tableau pile that accepts the waste card
hintWasteToTableauLast(s) ==
    LET wasteCard == getTopWasteCard(s)
        piles == {i \in Tableaus : canPlaceOnTableau(s, wasteCard, i)}
    IN  IF wasteCard # JsNull /\ piles # {}
        THEN [from |-> [cardId |-> wasteCard.id, location |-> "waste"],
              to   |-> [location |-> "tableau", pileIndex |-> FirstDown(piles)]]
        ELSE JsNull

\* priority 2: the waste card to the first tableau pile that accepts it
hintWasteToTableau(s) ==
    LET wasteCard == getTopWasteCard(s)
        piles == {i \in Tableaus : canPlaceOnTableau(s, wasteCard, i)}
    IN  IF wasteCard # JsNull /\ piles # {}
        THEN [from |-> [cardId |-> wasteCard.id, location |-> "waste"],
              to   |-> [location |-> "tableau", pileIndex |-> First(piles)]]
        ELSE JsNull

\* the moves (i, j, k) the loops of priority 3 accept: card j of pile i is
\* face-up and legal on pile k # i; a King at index 0 is not moved to an
\* empty pile
tableauMoves(s) ==
    {m \in Tableaus \X (0..(NumTableau + MaxRank)) \X Tableaus :
        /\ m[2] < Len(s.tableau[m[1]])
        /\ s.tableau[m[1]][m[2] + 1].faceUp
        /\ m[3] # m[1]
        /\ canPlaceOnTableau(s, s.tableau[m[1]][m[2] + 1], m[3])
        /\ ~ /\ s.tableau[m[1]][m[2] + 1].rank = KING
             /\ m[2] = 0
             /\ Len(s.tableau[m[3]]) = 0}

\* the hint of the move (i, j, k)
tableauHint(s, i, j, k) ==
    LET pile == s.tableau[i]
        card == pile[j + 1]
        wouldExpose == j > 0 /\ ~pile[j].faceUp
    IN  [from |-> [cardId |-> card.id, location |-> "tableau", pileIndex |-> i,
                   index |-> j],
         to   |-> [location |-> "tableau", pileIndex |-> k],
         exposesCard |-> wouldExpose]

\* priority 3 with the cards of a pile scanned from the top card downwards
hintTableauToTableauTopFirst(s) ==
    IF tableauMoves(s) = {} THEN JsNull
    ELSE LET i == First({m[1] : m \in tableauMoves(s)})
             j == FirstDown({m[2] : m \in {n \in tableauMoves(s) : n[1] = i}})
             k == First({m[3] : m \in {n \in tableauMoves(s) : n[1] = i /\ n[2] = j}})
         IN  tableauHint(s, i, j, k)

\* priority 3: piles i upwards, cards j of the pile upwards from index 0,
\* destinations k upwards
hintTableauToTableau(s) ==
    IF tableauMoves(s) = {} THEN JsNull
    ELSE LET i == First({m[1] : m \in tableauMoves(s)})
             j == First({m[2] : m \in {n \in tableauMoves(s) : n[1] = i}})
             k == First({m[3] : m \in {n \in tableauMoves(s) : n[1] = i /\ n[2] = j}})
         IN  tableauHint(s, i, j, k)

\* priorities 4 and 5: draw, reset
hintStock(s) ==
    IF Len(s.stock) > 0
    THEN [from |-> [location |-> "stock"], to |-> [location |-> "waste"],
          action |-> "draw"]
    ELSE IF Len(s.waste) > 0
    THEN [from |-> [location |-> "waste"], to |-> [location |-> "stock"],
          action |-> "reset"]
    ELSE JsNull

\* getHint that looks for a tableau pile for the waste card before it looks
\* for foundation moves of the tableau top cards
getHintWasteFirst(s) ==
    IF hintWasteToFoundation(s) # JsNull THEN hintWasteToFoundation(s)
    ELSE IF hintWasteToTableau(s) # JsNull THEN hintWasteToTableau(s)
    ELSE IF hintTableauToFoundation(s) # JsNull THEN hintTableauToFoundation(s)
    ELSE IF hintTableauToTableau(s) # JsNull THEN hintTableauToTableau(s)
    ELSE hintStock(s)

getHint(s) ==
    IF hintWasteToFoundation(s) # JsNull THEN hintWasteToFoundation(s)
    ELSE IF hintTableauToFoundation(s) # JsNull THEN hintTableauToFoundation(s)
    ELSE IF hintWasteToTableau(s) # JsNull THEN hintWasteToTableau(s)
    ELSE IF hintTableauToTableau(s) # JsNull THEN hintTableauToTableau(s)
    ELSE hintStock(s)

(***************************************************************************)
(* The commands, as the input layer issues them.                           *)
(***************************************************************************)
DrawCounts == {1, 3}

ScoringModes == {"standard", "vegas", "none"}

\* an id no card has
NoSuchCard == <<"joker", 0>>

\* no command sequence is under observation
NoSeq == [active |-> FALSE, skip |-> 0]

\* the observation begins after the next k commands
SeqAfter(k) == [active |-> FALSE, skip |-> k]

\* a sequence observed from state s on
SeqFrom(s) ==
    [active |-> TRUE, start |-> Snapshot(s), cmds |-> 0, undos |-> 0,
     allOk |-> TRUE, moved |-> FALSE]

\* the observation, after a command returned r
seqCommand(r) ==
    IF seq.active
    THEN [seq EXCEPT !.cmds = @ + 1,
                     !.allOk = @ /\ r.ret \notin {JsFalse, JsNull},
                     !.moved = @ \/ r.state.tableau # state.tableau]
    ELSE IF seq.skip = 1 THEN SeqFrom(r.state)
    ELSE IF seq.skip > 1 THEN SeqAfter(seq.skip - 1)
    ELSE seq

\* the observation, after a call of undo
seqUndo == IF ~seq.active THEN seq ELSE [seq EXCEPT !.undos = @ + 1]

\* Space, a click on the stock, Game > Deal
DrawStep ==
    /\ LET r == drawFromStock(state)
       IN  /\ state' = r.state
           /\ ret' = r.ret
           /\ seq' = seqCommand(r)
    /\ call' = [op |-> "drawFromStock"]
    /\ UNCHANGED <<settings, seededRandom, drag, WinAnimation, modal>>

\* Ctrl+Z, Game > Undo
UndoStep ==
    /\ LET r == undo(state)
       IN  /\ state' = r.state
           /\ ret' = r.ret
    /\ seq' = seqUndo
    /\ call' = [op |-> "undo"]
    /\ UNCHANGED <<settings, seededRandom, drag, WinAnimation, modal>>

\* a click on the card with one of the given ids
AutoStep(ids) ==
    /\ \E cardId \in ids :
          LET r == tryAutoMove(state, cardId)
          IN  /\ state' = r.state
              /\ ret' = r.ret
              /\ seq' = seqCommand(r)
    /\ call' = [op |-> "tryAutoMove"]
    /\ UNCHANGED <<settings, seededRandom, drag, WinAnimation, modal>>

\* the locations Drag.onPointerDown lets a drag start from: the top of the
\* waste, the top of a foundation, a face-up tableau card
WasteSources(s) ==
    IF Len(s.waste) = 0 THEN {}
    ELSE {[location |-> "waste", index |-> Len(s.waste) - 1]}

FoundationSources(s) ==
    {[location |-> "foundation", pileIndex |-> i, index |-> Len(s.foundations[i]) - 1] :
        i \in {f \in Foundations : Len(s.foundations[f]) > 0}}

TableauSources(s) ==
    UNION {{[location |-> "tableau", pileIndex |-> i, index |-> j - 1] :
                j \in {k \in DOMAIN s.tableau[i] : s.tableau[i][k].faceUp}} :
            i \in Tableaus}

DragSources(s) == WasteSources(s) \cup FoundationSources(s) \cup TableauSources(s)

\* the piles UI.getDropTarget can report
DropTargets ==
    {[type |-> "foundation", index |-> i] : i \in Foundations}
    \cup {[type |-> "tableau", index |-> i] : i \in Tableaus}

\* the cards dragged with the card at a location (UI.getCardsToMove)
draggedCount(s, location) ==
    IF location.location = "tableau"
    THEN Len(s.tableau[location.pileIndex]) - location.index
    ELSE 1

\* canDrop that accepts every drop on a tableau pile
canDropAnyTableau(s, sourceLocation, dropTarget) ==
    LET firstCard == cardAt(s, sourceLocation)
    IN  IF dropTarget.type = "foundation"
        THEN /\ draggedCount(s, sourceLocation) = 1
             /\ canPlaceOnFoundation(s, firstCard, dropTarget.index)
        ELSE dropTarget.type = "tableau"

\* canDrop of Drag.onPointerUp
canDrop(s, sourceLocation, dropTarget) ==
    LET firstCard == cardAt(s, sourceLocation)
    IN  IF dropTarget.type = "foundation"
        THEN /\ draggedCount(s, sourceLocation) = 1
             /\ canPlaceOnFoundation(s, firstCard, dropTarget.index)
        ELSE IF dropTarget.type = "tableau"
        THEN canPlaceOnTableau(s, firstCard, dropTarget.index)
        ELSE FALSE

\* a drag from one of the given locations, released on a pile that accepts
\* it: moveCards, validated by the caller
MoveStep(sources) ==
    /\ \E sourceLocation \in sources, dropTarget \in DropTargets :
          /\ canDrop(state, sourceLocation, dropTarget)
          /\ LET r == moveCards(state, sourceLocation,
                         [location |-> dropTarget.type, pileIndex |-> dropTarget.index])
             IN  /\ state' = r.state
                 /\ ret' = r.ret
                 /\ seq' = seqCommand(r)
    /\ call' = [op |-> "moveCards"]
    /\ UNCHANGED <<settings, seededRandom, drag, WinAnimation, modal>>

\* tryAutoMove(cardId) for one of the given ids, the argument recorded
ClickStep(ids) ==
    \E cardId \in ids :
        /\ LET r == tryAutoMove(state, cardId)
           IN  /\ state' = r.state
               /\ ret' = r.ret
               /\ seq' = seqCommand(r)
        /\ call' = [op |-> "tryAutoMove", cardId |-> cardId]
        /\ UNCHANGED <<settings, seededRandom, drag, WinAnimation, modal>>

\* the ids of the cards Drag lets a click reach: the top of the waste, the
\* top of a foundation, a face-up tableau card
InputIds(s) == {cardAt(s, location).id : location \in DragSources(s)}

\* the ids of all cards lying on the foundations
FoundationIds(s) ==
    UNION {{s.foundations[i][k].id : k \in DOMAIN s.foundations[i]} : i \in Foundations}

\* locations of piles that hold no card
EmptySources(s) ==
    (IF Len(s.waste) = 0 THEN {[location |-> "waste", index |-> 0]} ELSE {})
    \cup {[location |-> "foundation", pileIndex |-> i, index |-> 0] :
             i \in {f \in Foundations : Len(s.foundations[f]) = 0}}
    \cup {[location |-> "tableau", pileIndex |-> i, index |-> 0] :
             i \in {p \in Tableaus : Len(s.tableau[p]) = 0}}

\* no pile holds an undefined element (every later access to a property of
\* such an element throws)
NoUndefined(s) ==
    /\ \A i \in Foundations : \A k \in DOMAIN s.foundations[i] :
            s.foundations[i][k] # Undefined
    /\ \A i \in Tableaus : \A k \in DOMAIN s.tableau[i] :
            s.tableau[i][k] # Undefined

\* moveCards called directly, with no validation by the caller, the
\* arguments recorded
RawMoveStep(sources) ==
    \E fromLocation \in sources, dropTarget \in DropTargets :
        LET toLocation == [location |-> dropTarget.type, pileIndex |-> dropTarget.index]
            r == moveCards(state, fromLocation, toLocation)
        IN  /\ state' = r.state
            /\ ret' = r.ret
            /\ seq' = seqCommand(r)
            /\ call' = [op |-> "moveCards", from |-> fromLocation, to |-> toLocation]
            /\ UNCHANGED <<settings, seededRandom, drag, WinAnimation, modal>>

(***************************************************************************)
(* WinAnimation (part_002) with App.triggerWin and App.showWinModal        *)
(* (part_001).  Lengths and speeds are in tenths of a pixel and of a pixel *)
(* a frame, a trail's alpha in hundredths.  The canvas is CanvasWidth by   *)
(* CanvasHeight; the drawing calls leave no state and are left out, and a  *)
(* particle or a trail keeps the fields the code reads again (not the card *)
(* it draws).  The pending callbacks of the browser are fields of the      *)
(* record too: startTimeout (setTimeout 200 of triggerWin), launchInterval *)
(* (setInterval 150 of start, with the variables it closes over), frame    *)
(* (requestAnimationFrame: animate or fadeOut), fadeTimeout (setTimeout    *)
(* 1000 of fadeOut).                                                       *)
(***************************************************************************)
CanvasWidth == 120

CanvasHeight == 60

\* the source fades a trail by 0.02 a frame in animate and by 0.03 in
\* fadeOut; the model fades it faster, so that a trail lives a few frames
AnimateFade == 40

FadeOutFade == 30

maxTrails == 200

gravity == 3

\* a card that bounces off the bottom slower than 1.5 comes to rest
RestSpeed == 15

\* the alpha of a new trail, 0.8
TrailAlpha == 80

\* what Math.random() gives while the cards are launched: one of these
\* sequences of values (in tenths), over and over
MathRandoms == {<<0>>, <<0, 5, 5>>}

\* the value of call number n (from 0) of a sequence
mathRandom(random, n) == random[(n % Len(random)) + 1]

\* the cards the animation waits for: the literal 52 of the source, the
\* whole deck
DeckSize == Len(SUITS) * MaxRank

cardWidth == Min(600, CanvasWidth \div 12)

cardHeight == (cardWidth * 14) \div 10

\* where the page lays out foundation i, relative to the canvas
foundationPositions(i) == [x |-> 30 + 20 * i, y |-> 10]

JsUndefined == [type |-> "undefined"]

\* WinAnimation as declared: no particles, not running, no onComplete
NoAnimation ==
    [isRunning |-> FALSE, particles |-> <<>>, trails |-> <<>>,
     canvasActive |-> FALSE, onComplete |-> JsUndefined,
     startTimeout |-> FALSE, launchInterval |-> JsNull,
     frame |-> "none", fadeTimeout |-> FALSE]

\* the statistics App.showWinModal writes, and the modal it shows (the
\* elapsed time is read from the clock, which the model does not keep)
showWinModal(s) == [id |-> "win-modal", score |-> s.score, moves |-> s.moves]

\* App.triggerWin: stores the callback and starts the animation 200 ms later
triggerWin(a) ==
    [a EXCEPT !.onComplete = [type |-> "function", calls |-> "showWinModal"],
              !.startTimeout = TRUE]

\* one trail step: every alpha less by, the trails at 0 or below dropped
fadeTrails(trails, by) ==
    SelectSeq([i \in DOMAIN trails |-> trails[i] - by], LAMBDA t : t > 0)

\* slice(-maxTrails)
limitTrails(trails) ==
    IF Len(trails) > maxTrails
    THEN SubSeq(trails, Len(trails) - maxTrails + 1, Len(trails))
    ELSE trails

\* vy *= -bounce, bounce = 0.7 (toward zero on the grid of tenths)
bounceOff(vy) == IF vy >= 0 THEN -((vy * 7) \div 10) ELSE ((-vy) * 7) \div 10

\* the physics of one frame for one particle
stepParticle(p) ==
    IF ~p.active THEN p
    ELSE
    LET vy1   == p.vy + gravity
        x1    == p.x + p.vx
        y1    == p.y + vy1
        hits  == y1 + cardHeight > CanvasHeight
        vy2   == IF hits THEN bounceOff(vy1) ELSE vy1
        moved == [p EXCEPT !.x = x1,
                           !.y = IF hits THEN CanvasHeight - cardHeight ELSE y1,
                           !.vy = vy2]
    IN  IF hits /\ (IF vy2 < 0 THEN -vy2 ELSE vy2) < RestSpeed
        THEN [moved EXCEPT !.active = FALSE]
        ELSE IF x1 < -cardWidth \/ x1 > CanvasWidth + cardWidth
        THEN [moved EXCEPT !.active = FALSE]
        ELSE moved

\* fadeOut: fades the trails frame by frame; when none is left, isRunning
\* is cleared 1000 ms later
fadeOut(a) ==
    IF Len(a.trails) = 0
    THEN [a EXCEPT !.frame = "none", !.fadeTimeout = TRUE]
    ELSE LET trails == fadeTrails(a.trails, FadeOutFade)
         IN  IF Len(trails) > 0
             THEN [a EXCEPT !.trails = trails, !.frame = "fadeOut"]
             ELSE [a EXCEPT !.trails = trails, !.frame = "none",
                            !.fadeTimeout = TRUE]

\* fadeOut that calls onComplete when isRunning is cleared
fadeTimeoutCompletes(a, s, m) ==
    [anim  |-> [a EXCEPT !.isRunning = FALSE, !.fadeTimeout = FALSE],
     modal |-> IF a.onComplete = JsUndefined THEN m ELSE showWinModal(s)]

\* the callback of fadeOut's setTimeout: this.isRunning = false
fadeTimeout(a, s, m) ==
    [anim  |-> [a EXCEPT !.isRunning = FALSE, !.fadeTimeout = FALSE],
     modal |-> m]

\* animate: one frame
animate(a) ==
    IF ~a.isRunning THEN [a EXCEPT !.frame = "none"]
    ELSE
    LET faded     == limitTrails(fadeTrails(a.trails, AnimateFade))
        pushed    == [i \in 1..Cardinality({j \in DOMAIN a.particles :
                                               a.particles[j].active}) |->
                         TrailAlpha]
        particles == [i \in DOMAIN a.particles |-> stepParticle(a.particles[i])]
        activeCount == Cardinality({i \in DOMAIN particles : particles[i].active})
        b == [a EXCEPT !.trails = faded \o pushed, !.particles = particles]
    IN  IF activeCount > 0 \/ Len(particles) < DeckSize
        THEN [b EXCEPT !.frame = "animate"]
        ELSE fadeOut(b)

\* the cards start() collects: K down to A, each rank over the foundations
allCards(s) ==
    SelectSeq([k \in 1..(MaxRank * Len(SUITS)) |->
                  [rank |-> MaxRank - ((k - 1) \div Len(SUITS)),
                   foundationIndex |-> (k - 1) % Len(SUITS)]],
              LAMBDA e : \E j \in DOMAIN s.foundations[e.foundationIndex] :
                            s.foundations[e.foundationIndex][j].rank = e.rank)

\* start: the callback of triggerWin's setTimeout; random is what
\* Math.random() will give the launch interval
start(a, s, random) ==
    IF a.isRunning THEN a
    ELSE animate([a EXCEPT !.isRunning = TRUE,
                           !.particles = <<>>,
                           !.trails = <<>>,
                           !.canvasActive = TRUE,
                           !.launchInterval = [allCards |-> allCards(s),
                                               cardIndex |-> 0,
                                               random |-> random]])

\* one tick of the launch interval; Math.random() is called for vx and
\* then for vy
launch(a) ==
    LET li == a.launchInterval
        rx == mathRandom(li.random, 2 * li.cardIndex)
        ry == mathRandom(li.random, 2 * li.cardIndex + 1)
    IN  IF li.cardIndex >= Len(li.allCards) \/ ~a.isRunning
        THEN [a EXCEPT !.launchInterval = JsNull]
        ELSE LET foundationIndex == li.allCards[li.cardIndex + 1].foundationIndex
                 pos == foundationPositions(foundationIndex)
                 direction == IF foundationIndex < 2 THEN -1 ELSE 1
             IN  [a EXCEPT !.particles =
                               Append(@, [x |-> pos.x, y |-> pos.y,
                                          vx |-> direction * (rx * 4 + 30),
                                          vy |-> -(ry * 6 + 20),
                                          active |-> TRUE]),
                           !.launchInterval.cardIndex = @ + 1]

\* stop: a click on the canvas, Escape or the space bar while it runs
stop(a) ==
    [a EXCEPT !.isRunning = FALSE, !.particles = <<>>, !.trails = <<>>,
              !.canvasActive = FALSE]

\* the key W
SimulateWinStep ==
    /\ state' = simulateWin(state)
    /\ WinAnimation' = triggerWin(WinAnimation)
    /\ call' = [op |-> "simulateWin"]
    /\ ret' = [type |-> "undefined"]
    /\ UNCHANGED <<settings, seq, seededRandom, drag, modal>>

\* Drag as constructed, and as cleanup() and the end of onPointerUp leave it
NoDrag ==
    [isDragging |-> FALSE, moved |-> FALSE, sourceLocation |-> JsNull,
     draggedCardElements |-> <<>>, captured |-> FALSE, pressed |-> FALSE]

\* a game dealt from one of the random sources, no gesture under way
InitGame(draws, scorings) ==
    /\ \E rnd \in RandomSources, dc \in draws, sc \in scorings :
          /\ settings = [drawCount |-> dc, scoring |-> sc]
          /\ state = newGame(rnd)
          /\ call = [op |-> "newGame"]
          /\ ret = [type |-> "object"]
    /\ seededRandom = [seed |-> 1]
    /\ drag = NoDrag
    /\ WinAnimation = NoAnimation
    /\ modal = JsNull

(***************************************************************************)
(* Spec: every command, on every deal and setting, up to MaxMoves moves.   *)
(***************************************************************************)
Init == InitGame(DrawCounts, ScoringModes) /\ seq = NoSeq

DrawFromStock == state.moves < MaxMoves /\ DrawStep

Undo == UndoStep

TryAutoMove == state.moves < MaxMoves /\ AutoStep(CardIds \cup {NoSuchCard})

MoveCards == state.moves < MaxMoves /\ MoveStep(DragSources(state))

Next == DrawFromStock \/ Undo \/ TryAutoMove \/ MoveCards

Spec == Init /\ [][Next]_vars

(***************************************************************************)
(* SpecWaste: the player who draws, resets, undoes and plays only the top  *)
(* card of the waste (by a click or by a drag), up to MaxWasteMoves moves. *)
(***************************************************************************)
InitWaste == InitGame(DrawCounts, {"vegas"}) /\ seq = NoSeq

WasteDraw == state.moves < MaxWasteMoves /\ DrawStep

WasteUndo == UndoStep

WasteClick ==
    /\ state.moves < MaxWasteMoves
    /\ Len(state.waste) > 0
    /\ AutoStep({Last(state.waste).id})

WasteDrag == state.moves < MaxWasteMoves /\ MoveStep(WasteSources(state))

NextWaste == WasteDraw \/ WasteUndo \/ WasteClick \/ WasteDrag

SpecWaste == InitWaste /\ [][NextWaste]_vars

(***************************************************************************)
(* SpecLong: one observed sequence of commands followed by undo calls.     *)
(* The player draws and resets until the history is one short of its       *)
(* limit, then issues any command, up to MaxExtra commands past the limit; *)
(* once undoing has begun no further command is issued.  The observation   *)
(* starts with the new game or after the first command.                    *)
(***************************************************************************)
MaxSeq == HISTORY_LIMIT + MaxExtra

InitLong ==
    /\ InitGame(DrawCounts, {"standard"})
    /\ seq \in {SeqFrom(state), SeqAfter(1)}

\* a further command may be issued
MayCommand == seq.active => (seq.undos = 0 /\ seq.cmds < MaxSeq)

LongDraw == MayCommand /\ DrawStep

LongUndo == seq.active /\ seq.undos < seq.cmds /\ UndoStep

LongAutoMove ==
    /\ MayCommand
    /\ Len(state.history) >= HISTORY_LIMIT - 1
    /\ AutoStep(CardIds \cup {NoSuchCard})

LongMoveCards ==
    /\ MayCommand
    /\ Len(state.history) >= HISTORY_LIMIT - 1
    /\ MoveStep(DragSources(state))

NextLong == LongDraw \/ LongUndo \/ LongAutoMove \/ LongMoveCards

SpecLong == InitLong /\ [][NextLong]_vars

(***************************************************************************)
(* SpecEngine: the engine called with any card id, up to MaxEngineMoves    *)
(* moves.                                                                  *)
(***************************************************************************)
InitEngine == InitGame(DrawCounts, {"standard"}) /\ seq = NoSeq

EngineDraw == state.moves < MaxEngineMoves /\ DrawStep

EngineUndo == UndoStep

EngineTryAutoMove ==
    state.moves < MaxEngineMoves /\ ClickStep(CardIds \cup {NoSuchCard})

EngineMoveCards == state.moves < MaxEngineMoves /\ MoveStep(DragSources(state))

NextEngine == EngineDraw \/ EngineUndo \/ EngineTryAutoMove \/ EngineMoveCards

SpecEngine == InitEngine /\ [][NextEngine]_vars

(***************************************************************************)
(* SpecRaw: moveCards called without validation, from piles that hold      *)
(* cards and from piles that hold none, up to MaxRawMoves moves.           *)
(***************************************************************************)
InitRaw == InitGame({3}, {"standard"}) /\ seq = NoSeq

RawDraw == state.moves < MaxRawMoves /\ DrawStep

RawUndo == UndoStep

RawMoveCards ==
    /\ state.moves < MaxRawMoves
    /\ NoUndefined(state)
    /\ RawMoveStep(DragSources(state) \cup EmptySources(state))

NextRaw == RawDraw \/ RawUndo \/ RawMoveCards

SpecRaw == InitRaw /\ [][NextRaw]_vars

(***************************************************************************)
(* SpecInput: the commands as the input layer issues them: a click reaches *)
(* only the cards of InputIds, a drag is validated before moveCards; up to *)
(* MaxInputMoves moves.                                                    *)
(***************************************************************************)
InitInput == InitGame(DrawCounts, ScoringModes) /\ seq = NoSeq

InputDraw == state.moves < MaxInputMoves /\ DrawStep

InputUndo == UndoStep

InputClick == state.moves < MaxInputMoves /\ AutoStep(InputIds(state))

InputDrag == state.moves < MaxInputMoves /\ MoveStep(DragSources(state))

NextInput == InputDraw \/ InputUndo \/ InputClick \/ InputDrag

SpecInput == InitInput /\ [][NextInput]_vars

(***************************************************************************)
(* SpecWin: a game in which the key W fills the foundations; clicks reach  *)
(* the cards of InputIds and every card on a foundation; up to MaxWinMoves *)
(* moves.                                                                  *)
(***************************************************************************)
InitWin == InitGame({1}, {"standard"}) /\ seq = NoSeq

WinSimulate == ~isWon(state) /\ SimulateWinStep

WinUndo == UndoStep

WinClick ==
    /\ state.moves < MaxWinMoves
    /\ ClickStep(InputIds(state) \cup FoundationIds(state))

WinDrag == state.moves < MaxWinMoves /\ MoveStep(DragSources(state))

NextWin == WinSimulate \/ WinUndo \/ WinClick \/ WinDrag

SpecWin == InitWin /\ [][NextWin]_vars

(***************************************************************************)
(* SpecQuery: a game of draws, drags and the key W, up to MaxQueryMoves    *)
(* moves, in which the queries of the engine are called in every state.    *)
(***************************************************************************)
MaxQueryMoves == 3

\* a boolean as the value a query returns
JsBoolean(b) == IF b THEN JsTrue ELSE JsFalse

\* getHint that reads the waste card with pop()
GetHintPops ==
    /\ ret' = getHint(state)
    /\ call' = [op |-> "getHint"]
    /\ state' = [state EXCEPT !.waste = afterPop(@)]
    /\ UNCHANGED <<settings, seq, seededRandom, drag, WinAnimation, modal>>

GetHint ==
    /\ ret' = getHint(state)
    /\ call' = [op |-> "getHint"]
    /\ UNCHANGED <<state, settings, seq, seededRandom, drag, WinAnimation, modal>>

HasValidMoves ==
    /\ ret' = JsBoolean(hasValidMoves(state))
    /\ call' = [op |-> "hasValidMoves"]
    /\ UNCHANGED <<state, settings, seq, seededRandom, drag, WinAnimation, modal>>

IsWon ==
    /\ ret' = JsBoolean(isWon(state))
    /\ call' = [op |-> "isWon"]
    /\ UNCHANGED <<state, settings, seq, seededRandom, drag, WinAnimation, modal>>

FindCard ==
    /\ \E cardId \in CardIds \cup {NoSuchCard} : ret' = findCard(state, cardId)
    /\ call' = [op |-> "findCard"]
    /\ UNCHANGED <<state, settings, seq, seededRandom, drag, WinAnimation, modal>>

\* the legality predicates, asked of the cards the input layer can pick up
CanPlaceOnFoundation ==
    /\ \E location \in DragSources(state), foundationIndex \in Foundations :
          ret' = JsBoolean(canPlaceOnFoundation(state, cardAt(state, location),
                                                foundationIndex))
    /\ call' = [op |-> "canPlaceOnFoundation"]
    /\ UNCHANGED <<state, settings, seq, seededRandom, drag, WinAnimation, modal>>

CanPlaceOnTableau ==
    /\ \E location \in DragSources(state), tableauIndex \in Tableaus :
          ret' = JsBoolean(canPlaceOnTableau(state, cardAt(state, location),
                                             tableauIndex))
    /\ call' = [op |-> "canPlaceOnTableau"]
    /\ UNCHANGED <<state, settings, seq, seededRandom, drag, WinAnimation, modal>>

InitQuery == InitGame({3}, {"standard"}) /\ seq = NoSeq

QueryDraw == state.moves < MaxQueryMoves /\ DrawStep

QueryDrag == state.moves < MaxQueryMoves /\ MoveStep(DragSources(state))

QuerySimulateWin == ~isWon(state) /\ SimulateWinStep

NextQuery ==
    \/ QueryDraw \/ QueryDrag \/ QuerySimulateWin
    \/ GetHint \/ HasValidMoves \/ IsWon \/ FindCard
    \/ CanPlaceOnFoundation \/ CanPlaceOnTableau

SpecQuery == InitQuery /\ [][NextQuery]_vars

(***************************************************************************)
(* SpecDeal: games dealt from the seeds of WINNABLE_SEEDS, one after the   *)
(* other (Ctrl+N, F2, Game > New Game), each played up to MaxDealMoves     *)
(* commands and one undo more; the generator is also called directly, up   *)
(* to MaxNext calls in a game.                                             *)
(***************************************************************************)
MaxDealMoves == 2

MaxNext == 1

\* the observation of the commands that follow a new game; replaced is the
\* length of the history of the game the new one replaces, nexts counts the
\* direct calls of the generator
SeqNewGame(s, replaced) ==
    [active |-> TRUE, start |-> Snapshot(s), cmds |-> 0, undos |-> 0,
     allOk |-> TRUE, moved |-> FALSE, replaced |-> replaced, nexts |-> 0]

\* App.newGame that carries the history over into the new game
NewGameStepKeepsHistory ==
    /\ \E seed \in WINNABLE_SEEDS : \E r \in {newGameSeeded(seededRandom, seed)} :
              /\ state' = [r.state EXCEPT !.history = state.history]
              /\ seededRandom' = r.gen
              /\ call' = [op |-> "newGame", seed |-> seed]
              /\ seq' = SeqNewGame(r.state, Len(state.history))
    /\ ret' = [type |-> "object"]
    /\ UNCHANGED <<settings, drag, WinAnimation, modal>>

\* App.newGame -> Game.newGame, the seed getRandomWinnableSeed picks recorded
NewGameStep ==
    /\ \E seed \in WINNABLE_SEEDS : \E r \in {newGameSeeded(seededRandom, seed)} :
              /\ state' = r.state
              /\ seededRandom' = r.gen
              /\ call' = [op |-> "newGame", seed |-> seed]
              /\ seq' = SeqNewGame(r.state, Len(state.history))
    /\ ret' = [type |-> "object"]
    /\ UNCHANGED <<settings, drag, WinAnimation, modal>>

RandomNext ==
    /\ seq.nexts < MaxNext
    /\ \E r \in {next(seededRandom)} :
          /\ seededRandom' = r.gen
          /\ ret' = r.ret
    /\ call' = [op |-> "next"]
    /\ seq' = [seq EXCEPT !.nexts = @ + 1]
    /\ UNCHANGED <<state, settings, drag, WinAnimation, modal>>

RandomNextInt ==
    /\ seq.nexts < MaxNext
    /\ \E max \in 1..Len(createDeck) : \E r \in {nextInt(seededRandom, max)} :
          /\ seededRandom' = r.gen
          /\ ret' = [type |-> "number", value |-> r.ret]
          /\ call' = [op |-> "nextInt", max |-> max]
    /\ seq' = [seq EXCEPT !.nexts = @ + 1]
    /\ UNCHANGED <<state, settings, drag, WinAnimation, modal>>

\* App.init: the first game
InitDeal ==
    /\ settings = [drawCount |-> 3, scoring |-> "standard"]
    /\ \E seed \in WINNABLE_SEEDS : \E r \in {newGameSeeded([seed |-> 1], seed)} :
          /\ state = r.state
          /\ seededRandom = r.gen
          /\ call = [op |-> "newGame", seed |-> seed]
    /\ ret = [type |-> "object"]
    /\ seq = SeqNewGame(state, 0)
    /\ drag = NoDrag
    /\ WinAnimation = NoAnimation
    /\ modal = JsNull

DealNewGame == NewGameStep

DealDraw == seq.cmds < MaxDealMoves /\ DrawStep

DealUndo == seq.undos <= MaxDealMoves /\ UndoStep

DealClick == seq.cmds < MaxDealMoves /\ AutoStep(InputIds(state))

NextDeal ==
    DealNewGame \/ DealDraw \/ DealUndo \/ DealClick \/ RandomNext \/ RandomNextInt

SpecDeal == InitDeal /\ [][NextDeal]_vars

(***************************************************************************)
(* SpecDrag: one pointer and the keyboard.  Drag listens on the document   *)
(* for pointerdown, pointermove and pointerup; App.setupKeyboard listens   *)
(* for Space, Ctrl+Z and Ctrl+N and asks nothing about a gesture under     *)
(* way.  The elements of draggedCardElements are written as the ids of     *)
(* their cards; captured tells whether the pressed element still holds     *)
(* the pointer capture, which it loses when UI.render replaces it; pressed *)
(* tells whether the pointer that went down on a card is still down.       *)
(***************************************************************************)
MaxDragMoves == 2

\* is there an element at the index of the location (getCardFromLocation
\* returns undefined when there is none)
hasCard(s, location) ==
    IF location.location = "waste" THEN location.index < Len(s.waste)
    ELSE IF location.location = "foundation"
         THEN location.index < Len(s.foundations[location.pileIndex])
    ELSE location.index < Len(s.tableau[location.pileIndex])

\* the ids of the elements UI.getCardsToMove collects for the card at a
\* location: the card alone, or in the tableau the card and all above it
getCardsToMove(s, location) ==
    IF location.location = "tableau"
    THEN [k \in 1..(Len(s.tableau[location.pileIndex]) - location.index) |->
            s.tableau[location.pileIndex][location.index + k].id]
    ELSE <<cardAt(s, location).id>>

\* Drag after onPointerDown on the element of the card with this id
onPointerDown(s, d, cardId) ==
    LET location == findCard(s, cardId)
    IN  IF location = JsNull THEN d
        ELSE IF location.location = "stock" THEN d
        ELSE IF ~cardAt(s, location).faceUp THEN d
        ELSE IF /\ location.location = "waste"
                /\ location.index # Len(s.waste) - 1 THEN d
        ELSE IF /\ location.location = "foundation"
                /\ location.index # Len(s.foundations[location.pileIndex]) - 1 THEN d
        ELSE [d EXCEPT !.moved = FALSE,
                       !.sourceLocation = location,
                       !.draggedCardElements = getCardsToMove(s, location),
                       !.captured = TRUE,
                       !.pressed = TRUE]

\* Drag after onPointerMove; far tells whether the pointer is further than
\* DRAG_THRESHOLD from where it went down
onPointerMove(d, far) ==
    IF ~d.isDragging /\ ~far THEN d
    ELSE [d EXCEPT !.isDragging = TRUE, !.moved = TRUE]

\* does the validation of onPointerUp read a property of undefined
validationThrows(s, d, dropTarget) ==
    /\ ~hasCard(s, d.sourceLocation)
    /\ IF dropTarget.type = "foundation"
       THEN Len(d.draggedCardElements) = 1
       ELSE \/ Len(s.tableau[dropTarget.index]) = 0
            \/ Last(s.tableau[dropTarget.index]).faceUp

\* canDrop of onPointerUp, the number of dragged cards as recorded at
\* pointer-down
canDropDragged(s, d, dropTarget) ==
    IF ~hasCard(s, d.sourceLocation) THEN FALSE
    ELSE IF dropTarget.type = "foundation"
    THEN /\ Len(d.draggedCardElements) = 1
         /\ canPlaceOnFoundation(s, cardAt(s, d.sourceLocation), dropTarget.index)
    ELSE canPlaceOnTableau(s, cardAt(s, d.sourceLocation), dropTarget.index)

\* the id of the first card moveCards removes from the source pile: the
\* popped top of the waste or of a foundation, the first spliced card of a
\* tableau pile
firstRemoved(s, fromLocation) ==
    IF fromLocation.location = "waste" THEN popped(s.waste).id
    ELSE IF fromLocation.location = "foundation"
         THEN popped(s.foundations[fromLocation.pileIndex]).id
    ELSE IF fromLocation.index < Len(s.tableau[fromLocation.pileIndex])
         THEN s.tableau[fromLocation.pileIndex][fromLocation.index + 1].id
    ELSE NoSuchCard

\* Drag.handleClick on the element of the card with this id: a face-down
\* top card of the tableau is turned, a face-up card is auto-moved
handleClick(s, cardId) ==
    LET location == findCard(s, cardId)
    IN  IF location = JsNull THEN s
        ELSE IF /\ ~cardAt(s, location).faceUp
                /\ location.location = "tableau"
                /\ location.index = Len(s.tableau[location.pileIndex]) - 1
        THEN LET s1 == saveState(s)
             IN  [s1 EXCEPT
                     !.tableau[location.pileIndex][location.index + 1].faceUp = TRUE,
                     !.moves = @ + 1,
                     !.score = IF settings.scoring = "standard" THEN @ + 5 ELSE @]
        ELSE IF cardAt(s, location).faceUp THEN tryAutoMove(s, cardId).state
        ELSE s

\* the elements a pointerup can land on: the pressed element while it holds
\* the capture, else whatever lies under the pointer, a card or none
clickTargets(d) ==
    IF d.captured THEN {d.draggedCardElements[1]} ELSE CardIds \cup {NoSuchCard}

\* onPointerDown on the element of a card: a card that findCard reports in
\* the stock is drawn at once, any other card may start a gesture
PointerDown ==
    /\ state.moves < MaxDragMoves
    /\ ~drag.pressed
    /\ \E cardId \in CardIds :
          /\ drag' = onPointerDown(state, drag, cardId)
          /\ state' = IF /\ findCard(state, cardId) # JsNull
                         /\ findCard(state, cardId).location = "stock"
                      THEN drawFromStock(state).state
                      ELSE state
          /\ call' = [op |-> "pointerdown", cardId |-> cardId]
    /\ ret' = [type |-> "undefined"]
    /\ UNCHANGED <<settings, seq, seededRandom, WinAnimation, modal>>

PointerMove ==
    /\ drag.draggedCardElements # <<>>
    /\ \E far \in BOOLEAN : drag' = onPointerMove(drag, far)
    /\ call' = [op |-> "pointermove"]
    /\ ret' = [type |-> "undefined"]
    /\ UNCHANGED <<state, settings, seq, seededRandom, WinAnimation, modal>>

\* onPointerUp; call records the id of the card the handler validated and
\* the id of the first card moveCards then removed
PointerUp ==
    /\ drag.draggedCardElements # <<>>
    /\ \E dropTarget \in DropTargets \cup {JsNull}, cardId \in clickTargets(drag) :
         LET dropping == drag.isDragging /\ dropTarget # JsNull
         IN  IF dropping /\ validationThrows(state, drag, dropTarget)
             THEN /\ call' = [op |-> "pointerup", moved |-> FALSE, threw |-> TRUE]
                  /\ ret' = [type |-> "TypeError"]
                  /\ drag' = [drag EXCEPT !.pressed = FALSE, !.captured = FALSE]
                  /\ UNCHANGED state
             ELSE LET moving == dropping /\ canDropDragged(state, drag, dropTarget)
                      s1 == IF moving
                            THEN moveCards(state, drag.sourceLocation,
                                     [location |-> dropTarget.type,
                                      pileIndex |-> dropTarget.index]).state
                            ELSE state
                  IN  /\ state' = IF ~drag.moved THEN handleClick(s1, cardId) ELSE s1
                      /\ drag' = NoDrag
                      /\ ret' = [type |-> "undefined"]
                      /\ call' = IF moving
                                 THEN [op |-> "pointerup", moved |-> TRUE, threw |-> FALSE,
                                       to |-> dropTarget,
                                       validated |-> cardAt(state, drag.sourceLocation).id,
                                       removed |-> firstRemoved(state, drag.sourceLocation)]
                                 ELSE [op |-> "pointerup", moved |-> FALSE, threw |-> FALSE]
    /\ UNCHANGED <<settings, seq, seededRandom, WinAnimation, modal>>

\* the key Space
KeySpace ==
    /\ state.moves < MaxDragMoves
    /\ \E r \in {drawFromStock(state)} :
          /\ state' = r.state
          /\ ret' = r.ret
          /\ drag' = IF r.ret = JsTrue THEN [drag EXCEPT !.captured = FALSE] ELSE drag
    /\ call' = [op |-> "drawFromStock"]
    /\ UNCHANGED <<settings, seq, seededRandom, WinAnimation, modal>>

\* the keys Ctrl+Z
KeyCtrlZ ==
    /\ \E r \in {undo(state)} :
          /\ state' = r.state
          /\ ret' = r.ret
          /\ drag' = IF r.ret = JsTrue THEN [drag EXCEPT !.captured = FALSE] ELSE drag
    /\ call' = [op |-> "undo"]
    /\ UNCHANGED <<settings, seq, seededRandom, WinAnimation, modal>>

\* the keys Ctrl+N: App.newGame -> Game.newGame, shuffled with Math.random
KeyCtrlN ==
    /\ \E rnd \in RandomSources : state' = newGame(rnd)
    /\ drag' = [drag EXCEPT !.captured = FALSE]
    /\ call' = [op |-> "newGame"]
    /\ ret' = [type |-> "undefined"]
    /\ UNCHANGED <<settings, seq, seededRandom, WinAnimation, modal>>

InitDrag == InitGame({3}, {"standard"}) /\ seq = NoSeq

NextDrag == PointerDown \/ PointerMove \/ PointerUp \/ KeySpace \/ KeyCtrlZ \/ KeyCtrlN

SpecDrag == InitDrag /\ [][NextDrag]_vars

(***************************************************************************)
(* SpecEnd: one deal played to its end by a player who draws and undoes at *)
(* will and clicks the card the hint names, three cards drawn at a time,   *)
(* up to MaxEndMoves moves.  The deal buries the Ace of hearts and the     *)
(* King of spades under the 2 of hearts; the stock and the other cards of  *)
(* the tableau can all be played.                                          *)
(***************************************************************************)
MaxEndMoves == 10

InitEnd ==
    /\ settings = [drawCount |-> 3, scoring |-> "standard"]
    /\ state = newGame(RandomSource(<<1, 0, 0, 1, 1, 6, 7, 8, 3, 4, 5>>))
    /\ call = [op |-> "newGame"]
    /\ ret = [type |-> "object"]
    /\ seededRandom = [seed |-> 1]
    /\ drag = NoDrag
    /\ WinAnimation = NoAnimation
    /\ modal = JsNull
    /\ seq = NoSeq

EndDraw == state.moves < MaxEndMoves /\ DrawStep

EndUndo == UndoStep

EndClick ==
    /\ state.moves < MaxEndMoves
    /\ getHint(state) # JsNull
    /\ "cardId" \in DOMAIN getHint(state).from
    /\ AutoStep({getHint(state).from.cardId})

NextEnd == EndDraw \/ EndUndo \/ EndClick

SpecEnd == InitEnd /\ [][NextEnd]_vars

(***************************************************************************)
(* SpecAnim: the key W on a fresh deal, then the callbacks of the win      *)
(* animation in any order the browser may run them, and the player's       *)
(* dismissal at any moment while the animation runs.  A timer that is due  *)
(* and a frame that is requested are run in the end (weak fairness); the   *)
(* player may never press W and may never dismiss.                         *)
(***************************************************************************)
InitAnim == InitGame({1}, {"standard"}) /\ seq = NoSeq

AnimSimulateWin == ~isWon(state) /\ SimulateWinStep

\* the timeout of triggerWin is due: WinAnimation.start()
AnimStart ==
    /\ WinAnimation.startTimeout
    /\ \E random \in MathRandoms :
          WinAnimation' = start([WinAnimation EXCEPT !.startTimeout = FALSE],
                                state, random)
    /\ call' = [op |-> "start"]
    /\ ret' = JsUndefined
    /\ UNCHANGED <<state, settings, seq, seededRandom, drag, modal>>

\* the launch interval ticks
AnimLaunch ==
    /\ WinAnimation.launchInterval # JsNull
    /\ WinAnimation' = launch(WinAnimation)
    /\ call' = [op |-> "launchInterval"]
    /\ ret' = JsUndefined
    /\ UNCHANGED <<state, settings, seq, seededRandom, drag, modal>>

\* the requested animation frame: animate() or fadeOut()
AnimFrame ==
    /\ WinAnimation.frame # "none"
    /\ WinAnimation' = IF WinAnimation.frame = "animate"
                       THEN animate(WinAnimation)
                       ELSE fadeOut(WinAnimation)
    /\ call' = [op |-> WinAnimation.frame]
    /\ ret' = JsUndefined
    /\ UNCHANGED <<state, settings, seq, seededRandom, drag, modal>>

\* the timeout of fadeOut is due
AnimFadeTimeout ==
    /\ WinAnimation.fadeTimeout
    /\ \E r \in {fadeTimeout(WinAnimation, state, modal)} :
          /\ WinAnimation' = r.anim
          /\ modal' = r.modal
    /\ call' = [op |-> "fadeTimeout"]
    /\ ret' = JsUndefined
    /\ UNCHANGED <<state, settings, seq, seededRandom, drag>>

\* a click on the canvas, or Escape, while the animation runs
AnimDismiss ==
    /\ WinAnimation.isRunning
    /\ WinAnimation' = stop(WinAnimation)
    /\ call' = [op |-> "stop"]
    /\ ret' = JsUndefined
    /\ UNCHANGED <<state, settings, seq, seededRandom, drag, modal>>

NextAnim ==
    \/ AnimSimulateWin
    \/ AnimStart
    \/ AnimLaunch
    \/ AnimFrame
    \/ AnimFadeTimeout
    \/ AnimDismiss

SpecAnim ==
    /\ InitAnim
    /\ [][NextAnim]_vars
    /\ WF_vars(AnimStart)
    /\ WF_vars(AnimLaunch)
    /\ WF_vars(AnimFrame)
    /\ WF_vars(AnimFadeTimeout)

(***************************************************************************)
(* Properties.                                                             *)
(***************************************************************************)
\* the engine commands that snapshot before they mutate
Commands == {"drawFromStock", "tryAutoMove", "moveCards"}

Succeeded(r) == r \notin {JsFalse, JsNull}

RECURSIVE Flatten(_, _)
Flatten(piles, n) ==
    IF n < 0 THEN <<>> ELSE Flatten(piles, n - 1) \o piles[n]

\* every card of the game, pile after pile
AllCards(s) ==
    s.stock \o s.waste \o Flatten(s.foundations, Len(SUITS) - 1)
            \o Flatten(s.tableau, NumTableau - 1)

\* C1. Partition invariant: in every reachable state the cards of stock,
\* waste, the foundations and the tableau piles are exactly the deck's
\* distinct (suit, rank) cards, none twice and none missing.
C1_Partition ==
    LET all == AllCards(state)
    IN  /\ Len(all) = Len(SUITS) * MaxRank
        /\ {<<all[k].suit, all[k].rank>> : k \in DOMAIN all} = CardIds
        /\ \A k \in DOMAIN all : all[k].id = <<all[k].suit, all[k].rank>>

\* cards have moved between all pile groups and a move was undone
C1_Witness ==
    /\ call.op = "undo"
    /\ ret = JsTrue
    /\ Len(state.stock) > 0
    /\ Len(state.waste) > 0
    /\ \E i \in Foundations : Len(state.foundations[i]) > 0
    /\ \E i \in Tableaus : Len(state.tableau[i]) > i + 1

\* C2. Foundation monotonicity: every foundation pile i is empty or holds
\* exactly the cards of suit SUITS[i] with ranks 1, 2, ..., topRank in that
\* order.
C2_FoundationMonotonic ==
    \A i \in Foundations :
        \A k \in DOMAIN state.foundations[i] :
            /\ state.foundations[i][k].suit = SUITS[i + 1]
            /\ state.foundations[i][k].rank = k

\* C4. undo() called with an empty history returns false and leaves the
\* piles, moves, score and history unchanged.
C4_UndoEmpty ==
    [][(call'.op = "undo" /\ Len(state.history) = 0)
          => (ret' = JsFalse /\ state' = state)]_vars

\* undo was called on an empty history and returned false
C4_Witness ==
    /\ call.op = "undo"
    /\ ret = JsFalse
    /\ Len(state.history) = 0

\* the JSON text of the piles, moves and score of s
TextOf(s) == [type |-> "string", json |-> Snapshot(s)]

\* what history holds after a snapshot of s is pushed onto h
Pushed(h, s) ==
    IF Len(h) >= HISTORY_LIMIT
    THEN Append(SubSeq(h, Len(h) - HISTORY_LIMIT + 2, Len(h)), TextOf(s))
    ELSE Append(h, TextOf(s))

\* C6. Snapshot before mutation: a command that succeeds pushes exactly one
\* snapshot, equal to the state immediately before the command; a command
\* that fails pushes none.
C6_SnapshotBefore ==
    [][call'.op \in Commands =>
          IF Succeeded(ret')
          THEN state'.history = Pushed(state.history, state)
          ELSE state'.history = state.history]_vars

\* a draw, a reset, a moveCards and a tryAutoMove have each pushed their snapshot
C6_Witness ==
    /\ call.op = "tryAutoMove"
    /\ Succeeded(ret)
    /\ Len(state.history) >= 4
    /\ \E k \in DOMAIN state.history :
          /\ Len(state.history[k].json.stock) = 0
          /\ Len(state.history[k].json.waste) > 0

\* C9. Reset: with the stock empty and the waste not, drawFromStock makes
\* the stock the reverse of the waste, every card face-down, and empties
\* the waste; under 'vegas' the score becomes max(0, score - 100), under
\* 'standard' and 'none' it is unchanged; it is never negative.
C9_Reset ==
    [][(call'.op = "drawFromStock" /\ Len(state.stock) = 0 /\ Len(state.waste) > 0)
          => /\ Len(state'.stock) = Len(state.waste)
             /\ \A k \in DOMAIN state.waste :
                    state'.stock[k] =
                        [state.waste[Len(state.waste) - k + 1] EXCEPT !.faceUp = FALSE]
             /\ state'.waste = <<>>
             /\ state'.score = IF settings.scoring = "vegas"
                               THEN Max(0, state.score - 100)
                               ELSE state.score
             /\ state'.score >= 0]_vars

\* a reset under 'vegas' of a waste of several cards, with points to lose
C9_Witness ==
    /\ call.op = "drawFromStock"
    /\ settings.scoring = "vegas"
    /\ Len(state.history) > 0
    /\ Len(Last(state.history).json.stock) = 0
    /\ Len(Last(state.history).json.waste) > 1
    /\ Last(state.history).json.score > 0
    /\ state.score = 0

\* the cards canPlaceOnFoundation may be asked about
AnyCards == {[createCard(id[1], id[2]) EXCEPT !.faceUp = up] :
                id \in CardIds, up \in BOOLEAN}

\* C10. canPlaceOnFoundation(card, i) is true iff card.suit = SUITS[i] and
\* either foundation i is empty and card.rank = 1, or it is not empty and
\* card.rank = (rank of its top card) + 1; for every card and every i.
C10_CanPlaceOnFoundation ==
    \A card \in AnyCards, i \in Foundations :
        canPlaceOnFoundation(state, card, i)
            <=> /\ card.suit = SUITS[i + 1]
                /\ \/ Len(state.foundations[i]) = 0 /\ card.rank = 1
                   \/ /\ Len(state.foundations[i]) > 0
                      /\ card.rank =
                            state.foundations[i][Len(state.foundations[i])].rank + 1

\* an empty foundation that takes its ace beside one that takes its next rank
C10_Witness ==
    \E i, j \in Foundations :
        /\ Len(state.foundations[i]) = 0
        /\ Len(state.foundations[j]) > 0
        /\ \E card \in AnyCards :
              card.rank > 1 /\ canPlaceOnFoundation(state, card, j)

\* C7. drawFromStock() returns false exactly when both stock and waste are
\* empty, and then nothing changes; in every other state it returns true.
C7_DrawFails ==
    [][call'.op = "drawFromStock" =>
          /\ ret' \in {JsTrue, JsFalse}
          /\ ret' = JsFalse <=> (Len(state.stock) = 0 /\ Len(state.waste) = 0)
          /\ ret' = JsFalse => state' = state]_vars

\* a draw failed once every card had left the stock and the waste
C7_Witness ==
    /\ call.op = "drawFromStock"
    /\ ret = JsFalse
    /\ Len(state.stock) = 0
    /\ Len(state.waste) = 0
    /\ Len(state.history) > 0

\* C8. Draw: with a non-empty stock, drawFromStock removes the
\* n = min(drawCount, stock.length) top cards of the stock, turns each
\* face-up and appends them to the waste in the order drawn, adds 1 to
\* moves and leaves foundations, tableau and score unchanged.
C8_Draw ==
    [][(call'.op = "drawFromStock" /\ Len(state.stock) > 0) =>
          LET len == Len(state.stock)
              n == IF settings.drawCount < len THEN settings.drawCount ELSE len
          IN  /\ state'.stock = SubSeq(state.stock, 1, len - n)
              /\ Len(state'.waste) = Len(state.waste) + n
              /\ SubSeq(state'.waste, 1, Len(state.waste)) = state.waste
              /\ \A k \in 1..n :
                    state'.waste[Len(state.waste) + k] =
                        [state.stock[len - k + 1] EXCEPT !.faceUp = TRUE]
              /\ state'.moves = state.moves + 1
              /\ state'.foundations = state.foundations
              /\ state'.tableau = state.tableau
              /\ state'.score = state.score]_vars

\* a draw of three took the two cards a reset stock had left, onto a waste
\* that was not empty
C8_Witness ==
    /\ call.op = "drawFromStock"
    /\ settings.drawCount = 3
    /\ Len(state.history) > 0
    /\ Len(Last(state.history).json.stock) = 2
    /\ Len(Last(state.history).json.waste) > 0
    /\ Len(state.stock) = 0

\* C3 as stated. Move reversibility: after any sequence of commands
\* followed by an equal number of undo calls, piles, moves and score equal
\* their values before the sequence began.
C3_Reversible ==
    (seq.active /\ seq.cmds >= 1 /\ seq.undos = seq.cmds)
        => Snapshot(state) = seq.start

\* C3 as amended. After a sequence of at most 50 commands, each of which
\* succeeded, followed by an equal number of undo calls, piles, moves and
\* score equal their values before the sequence began.
C3_ReversibleWithinLimit ==
    (/\ seq.active
     /\ seq.cmds >= 1
     /\ seq.cmds <= HISTORY_LIMIT
     /\ seq.allOk
     /\ seq.undos = seq.cmds)
        => Snapshot(state) = seq.start

\* fifty commands, a move of cards among them, all undone
C3_Witness ==
    /\ seq.active
    /\ seq.cmds = HISTORY_LIMIT
    /\ seq.allOk
    /\ seq.undos = seq.cmds
    /\ seq.moved

\* C5. History bound: history never holds more than 50 snapshots; a
\* command executed with 50 stored discards the oldest, so history holds
\* the pre-states of the most recent not-yet-undone commands in
\* chronological order.
C5_HistoryBound ==
    /\ [](Len(state.history) <= HISTORY_LIMIT)
    /\ [][/\ (call'.op \in Commands /\ Succeeded(ret')) =>
                /\ state'.history[Len(state'.history)] = TextOf(state)
                /\ IF Len(state.history) = HISTORY_LIMIT
                   THEN /\ Len(state'.history) = HISTORY_LIMIT
                        /\ \A k \in 1..(HISTORY_LIMIT - 1) :
                              state'.history[k] = state.history[k + 1]
                   ELSE /\ Len(state'.history) = Len(state.history) + 1
                        /\ \A k \in DOMAIN state.history :
                              state'.history[k] = state.history[k]
          /\ (call'.op = "undo" /\ ret' = JsTrue) =>
                /\ Len(state'.history) = Len(state.history) - 1
                /\ \A k \in DOMAIN state'.history :
                      state'.history[k] = state.history[k]]_vars

\* a command executed with the history full
C5_Witness ==
    /\ call.op = "moveCards"
    /\ seq.active
    /\ seq.cmds > HISTORY_LIMIT
    /\ seq.undos = 0
    /\ Len(state.history) = HISTORY_LIMIT

colour(card) == IF card.suit \in {"hearts", "diamonds"} THEN "red" ELSE "black"

\* C11. canPlaceOnTableau(card, t) is true iff pile t is empty and the card
\* is a King, or pile t is not empty, its top card is face-up, of the other
\* colour, and one rank above the card; for every card and every pile.
C11_CanPlaceOnTableau ==
    \A card \in AnyCards, t \in Tableaus :
        LET pile == state.tableau[t]
        IN  canPlaceOnTableau(state, card, t)
                <=> \/ Len(pile) = 0 /\ card.rank = KING
                    \/ /\ Len(pile) > 0
                       /\ pile[Len(pile)].faceUp
                       /\ colour(pile[Len(pile)]) # colour(card)
                       /\ card.rank = pile[Len(pile)].rank - 1

\* beside an empty pile, a pile whose top takes a card of the other colour
\* and rejects the card of its own colour and the same rank
C11_Witness ==
    /\ \E t \in Tableaus : Len(state.tableau[t]) = 0
    /\ \E t \in Tableaus, card, other \in AnyCards :
          /\ Len(state.tableau[t]) > 0
          /\ card.rank = other.rank
          /\ colour(other) = colour(Last(state.tableau[t]))
          /\ canPlaceOnTableau(state, card, t)
          /\ ~canPlaceOnTableau(state, other, t)

\* C16. Tableau run validity: every two adjacent face-up cards of a tableau
\* pile have opposite colours, the upper one exactly one rank lower than
\* the one beneath it.
C16_TableauRuns ==
    \A t \in Tableaus :
        \A k \in 1..(Len(state.tableau[t]) - 1) :
            LET beneath == state.tableau[t][k]
                upper == state.tableau[t][k + 1]
            IN  (beneath.faceUp /\ upper.faceUp)
                    => /\ colour(beneath) # colour(upper)
                       /\ upper.rank = beneath.rank - 1

\* a drag has built a run of three face-up cards
C16_Witness ==
    /\ call.op = "moveCards"
    /\ \E t \in Tableaus :
          /\ Len(state.tableau[t]) >= 3
          /\ \A k \in (Len(state.tableau[t]) - 2)..Len(state.tableau[t]) :
                state.tableau[t][k].faceUp

\* a foundation has gained a card in the step
FoundationGrew ==
    \E i \in Foundations : Len(state'.foundations[i]) > Len(state.foundations[i])

\* the step has taken cards off a tableau pile and turned its new top card
\* face-up
Flipped ==
    \E t \in Tableaus :
        LET len == Len(state'.tableau[t])
        IN  /\ len > 0
            /\ len < Len(state.tableau[t])
            /\ ~state.tableau[t][len].faceUp
            /\ state'.tableau[t][len].faceUp

\* a step in which moveCards ran, called by a drag or through tryAutoMove
Moved == call'.op \in {"moveCards", "tryAutoMove"} /\ Succeeded(ret')

\* C17. Foundation scoring: a move onto a foundation that exposes no
\* face-down card changes the score by +10 under 'standard', +5 under
\* 'vegas', 0 under 'none'; under 'none' no command changes the score, which
\* stays 0.
C17_FoundationScoring ==
    /\ [][(Moved /\ FoundationGrew /\ ~Flipped) =>
            state'.score - state.score =
                (IF settings.scoring = "standard" THEN 10
                 ELSE IF settings.scoring = "vegas" THEN 5
                 ELSE 0)]_vars
    /\ [][settings.scoring = "none" => state'.score = state.score]_vars
    /\ [](settings.scoring = "none" => state.score = 0)

\* under 'vegas', the card of tableau pile 0 dragged onto its foundation
C17_Witness ==
    /\ call.op = "moveCards"
    /\ settings.scoring = "vegas"
    /\ state.score = 5
    /\ state.moves = 1
    /\ Len(state.tableau[0]) = 0
    /\ \E i \in Foundations : Len(state.foundations[i]) = 1

\* C18. Flip scoring: under 'standard' a move from a tableau pile that
\* turns the exposed top card of the source face-up awards +5 for the flip,
\* whatever the destination; under 'vegas' and 'none' a flip awards nothing.
C18_FlipScoring ==
    [][(Moved /\ Flipped) =>
          state'.score - state.score =
              (IF settings.scoring = "standard" THEN 5 ELSE 0)
              + (IF ~FoundationGrew THEN 0
                 ELSE IF settings.scoring = "standard" THEN 10
                 ELSE IF settings.scoring = "vegas" THEN 5
                 ELSE 0)]_vars

\* C19. moves counts completed actions: a command that succeeds (a draw, a
\* reset, a moveCards, a tryAutoMove) adds exactly 1 to moves, a command
\* that fails leaves it unchanged, undo restores its value before the
\* undone command.
C19_MovesCount ==
    [][/\ (call'.op \in Commands /\ Succeeded(ret')) => state'.moves = state.moves + 1
       /\ (call'.op \in Commands /\ ~Succeeded(ret')) => state'.moves = state.moves
       /\ (call'.op = "undo" /\ ret' = JsTrue) =>
              state'.moves = Last(state.history).json.moves]_vars

\* the pile a location lies in
pileAt(s, location) ==
    IF location.location = "waste" THEN s.waste
    ELSE IF location.location = "foundation" THEN s.foundations[location.pileIndex]
    ELSE s.tableau[location.pileIndex]

\* moveCards was asked for a move from an empty pile, or for a move the
\* rules reject
Illegal(s, fromLocation, toLocation) ==
    \/ Len(pileAt(s, fromLocation)) = 0
    \/ ~canDrop(s, fromLocation,
                [type |-> toLocation.location, index |-> toLocation.pileIndex])

\* C12. A command asked for an illegal or impossible move returns
\* false/null and leaves the state unchanged; in particular moveCards from
\* an empty source pile changes neither piles, moves, score nor history.
C12_IllegalMove ==
    [][(call'.op = "moveCards" /\ Illegal(state, call'.from, call'.to))
          => (ret' \in {JsFalse, JsNull} /\ state' = state)]_vars

\* the card with this id lies in the waste, beneath the top card
BelowWasteTop(s, cardId) ==
    \E k \in 1..(Len(s.waste) - 1) : s.waste[k].id = cardId

\* C13. tryAutoMove moves a waste card to its foundation only if it is the
\* top card of the waste; for a waste card beneath the top no foundation
\* move is made.
C13_WasteTopOnly ==
    [][(call'.op = "tryAutoMove" /\ BelowWasteTop(state, call'.cardId))
          => state'.foundations = state.foundations]_vars

\* C14. tryAutoMove priority: the top waste card or the top card of a
\* tableau pile goes to the foundation of its suit when that accepts it;
\* otherwise, and for other face-up tableau cards and foundation cards, the
\* card with everything above it goes to the lowest-indexed tableau pile,
\* other than its source, that accepts it; the destination is returned.
C14_Priority ==
    [][(/\ call'.op = "tryAutoMove"
        /\ findCard(state, call'.cardId) # JsNull
        /\ ~BelowWasteTop(state, call'.cardId)
        /\ cardAt(state, findCard(state, call'.cardId)).faceUp)
          => LET location == findCard(state, call'.cardId)
                 card == cardAt(state, location)
                 pile == pileAt(state, location)
                 isTop == location.index = Len(pile) - 1
                 fi == CHOOSE i \in Foundations : SUITS[i + 1] = card.suit
                 carried == SubSeq(pile, location.index + 1, Len(pile))
                 targets == {i \in Tableaus :
                               /\ ~(location.location = "tableau" /\ location.pileIndex = i)
                               /\ canPlaceOnTableau(state, card, i)}
             IN  IF /\ location.location \in {"waste", "tableau"}
                    /\ isTop
                    /\ canPlaceOnFoundation(state, card, fi)
                 THEN /\ ret' = [location |-> "foundation", pileIndex |-> fi]
                      /\ state'.foundations[fi] = Append(state.foundations[fi], card)
                      /\ Len(pileAt(state', location)) = Len(pile) - 1
                 ELSE IF targets # {}
                 THEN LET i == CHOOSE i \in targets : \A k \in targets : i <= k
                      IN  /\ ret' = [location |-> "tableau", pileIndex |-> i]
                          /\ state'.tableau[i] = state.tableau[i] \o carried
                          /\ Len(pileAt(state', location)) = location.index
                 ELSE TRUE]_vars

\* C15. Whenever tryAutoMove returns null, stock, waste, foundations,
\* tableau, moves, score and history are exactly as before the call.
C15_NullNoChange ==
    [][(call'.op = "tryAutoMove" /\ ret' = JsNull) => state' = state]_vars

\* after moves and with a history, the face-up top card of the waste found
\* no destination
C15_Witness ==
    /\ call.op = "tryAutoMove"
    /\ ret = JsNull
    /\ Len(state.history) > 1
    /\ Len(state.waste) > 0
    /\ call.cardId = Last(state.waste).id

\* C20. isWon() is true iff each of the four foundations holds a whole suit
\* (13 cards in the source): true when every foundation holds ranks 1..K of
\* its suit, false once any single card is removed from a foundation.
C20_IsWon ==
    /\ [](isWon(state) <=> \A i \in 0..3 : Len(state.foundations[i]) = MaxRank)
    /\ []((\A i \in 0..3 :
              /\ Len(state.foundations[i]) = MaxRank
              /\ \A k \in 1..MaxRank :
                    /\ state.foundations[i][k].suit = SUITS[i + 1]
                    /\ state.foundations[i][k].rank = k)
            => isWon(state))
    /\ [][(/\ isWon(state)
           /\ \E i \in 0..3 : Len(state'.foundations[i]) < Len(state.foundations[i]))
             => ~isWon(state')]_vars

\* a King has been taken off the foundations of a won game
C20_Witness ==
    /\ call.op \in {"tryAutoMove", "moveCards"}
    /\ ~isWon(state)
    /\ Len(state.history) > 0
    /\ \A i \in 0..3 : Len(Last(state.history).json.foundations[i]) = MaxRank
    /\ \E i \in 0..3 : Len(state.foundations[i]) = MaxRank - 1

\* C21. hasValidMoves() is true iff the stock is non-empty, or the waste is
\* non-empty, or the top card of some tableau pile is face-up and legal on
\* the foundation of its suit, or some face-up card at any depth of a
\* tableau pile i is legal on a tableau pile k # i.
C21_HasValidMoves ==
    hasValidMoves(state) <=>
        \/ state.stock # <<>>
        \/ state.waste # <<>>
        \/ \E i \in Tableaus :
              /\ state.tableau[i] # <<>>
              /\ Last(state.tableau[i]).faceUp
              /\ \E f \in Foundations :
                    /\ SUITS[f + 1] = Last(state.tableau[i]).suit
                    /\ canPlaceOnFoundation(state, Last(state.tableau[i]), f)
        \/ \E i \in Tableaus, k \in Tableaus :
              /\ k # i
              /\ \E j \in DOMAIN state.tableau[i] :
                    /\ state.tableau[i][j].faceUp
                    /\ canPlaceOnTableau(state, state.tableau[i][j], k)

\* stock and waste are empty and the only moves left lead to a foundation
C21_Witness ==
    /\ state.stock = <<>>
    /\ state.waste = <<>>
    /\ hasValidMoves(state)
    /\ ~ \E i \in Tableaus, k \in Tableaus :
            /\ k # i
            /\ \E j \in DOMAIN state.tableau[i] :
                  canPlaceOnTableau(state, state.tableau[i][j], k)

\* the hint names a move: it has a source and a destination
IsMove(h) == "from" \in DOMAIN h /\ "to" \in DOMAIN h

\* the hint names the action
IsAction(h, action) == "action" \in DOMAIN h /\ h.action = action

\* the waste card is legal on the foundation of its suit
WasteToFoundation(s) ==
    /\ s.waste # <<>>
    /\ \E f \in Foundations :
          SUITS[f + 1] = Last(s.waste).suit /\ canPlaceOnFoundation(s, Last(s.waste), f)

\* the tableau piles whose face-up top card is legal on its foundation
TopsToFoundation(s) ==
    {i \in Tableaus :
        /\ s.tableau[i] # <<>>
        /\ Last(s.tableau[i]).faceUp
        /\ \E f \in Foundations :
              /\ SUITS[f + 1] = Last(s.tableau[i]).suit
              /\ canPlaceOnFoundation(s, Last(s.tableau[i]), f)}

\* the tableau piles that accept the waste card
WasteToTableau(s) ==
    IF s.waste = <<>> THEN {}
    ELSE {i \in Tableaus : canPlaceOnTableau(s, Last(s.waste), i)}

\* the move of card j (0-based) of pile i to pile k is one getHint proposes:
\* legal, and not the move of a King at index 0 to an empty pile
Proposed(s, i, j, k) ==
    /\ k # i
    /\ j + 1 \in DOMAIN s.tableau[i]
    /\ s.tableau[i][j + 1].faceUp
    /\ canPlaceOnTableau(s, s.tableau[i][j + 1], k)
    /\ ~(s.tableau[i][j + 1].rank = KING /\ j = 0 /\ s.tableau[k] = <<>>)

TableauToTableau(s) ==
    \E i \in Tableaus, k \in Tableaus : \E j \in 0..(Len(s.tableau[i]) - 1) :
        Proposed(s, i, j, k)

LegalButLoneKing(s, i, j, k) ==
    /\ k # i
    /\ j + 1 \in DOMAIN s.tableau[i]
    /\ s.tableau[i][j + 1].faceUp
    /\ canPlaceOnTableau(s, s.tableau[i][j + 1], k)
    /\ ~(s.tableau[i][j + 1].rank = KING /\ Len(s.tableau[i]) = 1 /\ s.tableau[k] = <<>>)

\* the hint names the move of card j of pile i to pile k
NamesMove(h, s, i, j, k) ==
    /\ IsMove(h)
    /\ h.from = [cardId |-> s.tableau[i][j + 1].id, location |-> "tableau",
                 pileIndex |-> i, index |-> j]
    /\ h.to = [location |-> "tableau", pileIndex |-> k]

C24_ExposeFlag ==
    LET h == getHint(state)
    IN  (IsMove(h) /\ h.from.location = "tableau") =>
            LET pile == state.tableau[h.from.pileIndex]
                j == findIndex(pile, h.from.cardId)
            IN  /\ "exposesCard" \in DOMAIN h
                /\ h.exposesCard = (j > 0 /\ ~pile[j].faceUp)

Queries ==
    {"canPlaceOnFoundation", "canPlaceOnTableau", "isWon", "hasValidMoves",
     "getHint", "findCard"}

\* C25. The queries canPlaceOnFoundation, canPlaceOnTableau, isWon,
\* hasValidMoves, getHint and findCard never change the state: piles,
\* history, moves and score are after the call what they were before it.
C25_QueriesPure ==
    [][call'.op \in Queries => state' = state]_vars

\* getHint has proposed a move from the waste in a game under way
C25_Witness ==
    /\ call.op = "getHint"
    /\ IsMove(ret)
    /\ ret.from.location = "waste"
    /\ Len(state.history) > 1

\* the deck shuffle(createDeck(), seed) returns
ShuffledDeck(seed) ==
    CHOOSE deck \in
        {shuffle(createDeck, source.rnd) :
            source \in {seededSource([seed |-> seed], Len(createDeck) - 1,
                                     [i \in 1..(Len(createDeck) - 1) |-> 0])}} : TRUE

\* the cards dealt to the columns: 28 in the source
Dealt == (NumTableau * (NumTableau + 1)) \div 2

\* C26. Deal: after newGame() column c holds c + 1 cards, taken from the
\* shuffled deck in order (column 0 the first card, column 1 the next two,
\* ...), only the last card of each column is face-up; the stock holds the
\* remaining cards (24 in the source) in deck order, all face-down; waste
\* and foundations are empty, the history is empty, moves = score = 0.
C26_Deal ==
    call.op = "newGame" =>
        \A deck \in {ShuffledDeck(call.seed)} :
            /\ \A c \in Tableaus :
                  /\ Len(state.tableau[c]) = c + 1
                  /\ \A row \in 1..(c + 1) :
                        /\ state.tableau[c][row].id = deck[(c * (c + 1)) \div 2 + row].id
                        /\ state.tableau[c][row].faceUp = (row = c + 1)
            /\ Len(state.stock) = Len(deck) - Dealt
            /\ \A k \in DOMAIN state.stock :
                  /\ state.stock[k].id = deck[Dealt + k].id
                  /\ ~state.stock[k].faceUp
            /\ state.waste = <<>>
            /\ \A f \in Foundations : state.foundations[f] = <<>>
            /\ state.history = <<>>
            /\ state.moves = 0
            /\ state.score = 0

\* a new game has been dealt over a game that had a history
C26_Witness ==
    /\ call.op = "newGame"
    /\ seq.replaced > 0
    /\ seededRandom.seed # 1

\* C27. Deterministic seeded deal: two deals made with the same seed have
\* the same tableau and stock, whatever the state of the generator before
\* the deal: the deal from the generator as it is now equals the deal from
\* the generator as constructed.
C27_SameSeedSameDeal ==
    \A seed \in WINNABLE_SEEDS :
        newGameSeeded(seededRandom, seed).state = newGameSeeded([seed |-> 1], seed).state

\* the generator has been called since the last deal, in a game under way
C27_Witness ==
    /\ call.op \in {"next", "nextInt"}
    /\ seq.nexts > 0
    /\ state.moves > 0
    /\ seededRandom.seed \notin WINNABLE_SEEDS \cup {1}

\* (seed * 1103515245 + 12345) mod 2^31, in exact arithmetic
ExactLCG(seed) == Low31(Normalize([Product(seed) EXCEPT ![1] = @ + 12345]))

\* C28. Seeded generator: for every state of the generator, next() sets
\* seed to (seed * 1103515245 + 12345) mod 2^31 and returns a value in
\* [0, 1), strictly below 1; so nextInt(max) is in 0..max-1 and the swap
\* index j = nextInt(i + 1) of shuffle satisfies 0 <= j <= i.
C28_Generator ==
    /\ [][call'.op = "next" =>
            /\ seededRandom'.seed = ExactLCG(seededRandom.seed)
            /\ 0 <= ret'.num /\ ret'.num < ret'.den]_vars
    /\ [][call'.op = "nextInt" => ret'.value \in 0..(call'.max - 1)]_vars
    /\ [](\A seed \in WINNABLE_SEEDS :
            \A source \in {seededSource([seed |-> seed], Len(createDeck) - 1,
                                        [i \in 1..(Len(createDeck) - 1) |-> 0])} :
                \A i \in DOMAIN source.rnd : source.rnd[i] \in 0..i)

\* C29. A new game replaces the state wholesale: after newGame() the
\* history is empty, undo() returns false, and no sequence of undo() calls
\* restores anything of the previous game: as long as only undos follow the
\* deal, piles, moves and score stay those of the deal.
C29_NewGameReplaces ==
    /\ [](call.op = "newGame" => state.history = <<>>)
    /\ [][(call.op = "newGame" /\ call'.op = "undo") => ret' = JsFalse]_vars
    /\ []((seq.active /\ seq.cmds = 0) =>
            /\ Snapshot(state) = seq.start
            /\ state.history = <<>>)

\* two undos have followed a new game that replaced a game with a history
C29_Witness ==
    /\ call.op = "undo"
    /\ ret = JsFalse
    /\ seq.replaced > 0
    /\ seq.cmds = 0
    /\ seq.undos = 2

\* C30: whatever keyboard commands (Space, Ctrl+Z, Ctrl+N) come between the
\* pointer events of a gesture, at pointer-up the source location recorded
\* at pointer-down still designates the card that was pressed, and when
\* onPointerUp moves, the card it validated with canPlaceOnFoundation or
\* canPlaceOnTableau is the first card moveCards removes from the source
\* pile.
C30_NoInterleavingCorruptsMove ==
    [][call'.op = "pointerup" =>
          /\ hasCard(state, drag.sourceLocation)
          /\ cardAt(state, drag.sourceLocation).id = drag.draggedCardElements[1]
          /\ call'.moved => call'.validated = call'.removed]_vars

\* C31: in every state reached from newGame() by drawFromStock, tryAutoMove
\* (any card id), validated moveCards and undo, every stock card is
\* face-down, every waste and foundation card is face-up, and in every
\* tableau pile the face-down cards form a prefix and the top card is
\* face-up.
C31_FaceOrientation ==
    /\ \A k \in DOMAIN state.stock : ~state.stock[k].faceUp
    /\ \A k \in DOMAIN state.waste : state.waste[k].faceUp
    /\ \A i \in Foundations : \A k \in DOMAIN state.foundations[i] :
          state.foundations[i][k].faceUp
    /\ \A i \in Tableaus :
          /\ \A k, l \in DOMAIN state.tableau[i] :
                k < l /\ ~state.tableau[i][l].faceUp => ~state.tableau[i][k].faceUp
          /\ Len(state.tableau[i]) > 0 => Last(state.tableau[i]).faceUp

\* a card dealt face-down lies face-up in the tableau with a card dealt
\* below it still face-down, while waste, stock and a foundation hold cards
C31_Witness ==
    /\ \E i \in Tableaus :
          /\ Len(state.tableau[i]) > 1
          /\ Len(state.tableau[i]) <= i
          /\ ~state.tableau[i][1].faceUp
          /\ Last(state.tableau[i]).faceUp
    /\ Len(state.waste) > 0
    /\ Len(state.stock) > 0
    /\ \E i \in Foundations : Len(state.foundations[i]) > 0

\* snapshot b was taken one drawFromStock after snapshot a: cards left the
\* stock for the waste and nothing else moved
DrewBetween(a, b) ==
    /\ Len(b.stock) < Len(a.stock)
    /\ Len(b.stock) + Len(b.waste) = Len(a.stock) + Len(a.waste)
    /\ b.foundations = a.foundations
    /\ b.tableau = a.tableau

\* the snapshots j..Len(history) record draws that took a stock, lying
\* beside an empty waste, down to nothing, and the command just executed
\* is the reset that followed
CycledFrom(j) ==
    LET h == state.history
    IN  /\ call.op = "drawFromStock"
        /\ ret = JsTrue
        /\ j \in DOMAIN h
        /\ Len(JSONparse(h[j]).waste) = 0
        /\ Len(JSONparse(h[j]).stock) > 0
        /\ \A k \in j..(Len(h) - 1) : DrewBetween(JSONparse(h[k]), JSONparse(h[k + 1]))
        /\ Len(h) > j
        /\ Len(JSONparse(h[Len(h)]).stock) = 0
        /\ Len(state.waste) = 0

\* C32: when a non-empty stock S beside an empty waste has been drawn to
\* the end by successive drawFromStock() calls, the next drawFromStock()
\* leaves the stock equal to S, in the same order and face-down, and the
\* waste empty, for drawCount 1 and for drawCount 3.
C32_StockCycle ==
    \A j \in DOMAIN state.history :
        CycledFrom(j) =>
            /\ state.stock = JSONparse(state.history[j]).stock
            /\ \A k \in DOMAIN state.stock : ~state.stock[k].faceUp
            /\ state.waste = <<>>

\* a whole cycle of a stock of several cards, drawn in two draws or more
C32_Witness ==
    \E j \in DOMAIN state.history :
        /\ CycledFrom(j)
        /\ Len(state.stock) > settings.drawCount
        /\ Len(state.history) - j >= 2

\* the hint names a card to move
IsCardMove(h) == IsMove(h) /\ "cardId" \in DOMAIN h.from

\* C33: when getHint() returns a card move, tryAutoMove(hint.from.cardId)
\* in the same state succeeds and returns the destination hint.to (same
\* location and pileIndex); when getHint() returns the action 'draw' or
\* 'reset', drawFromStock() returns true.
C33_HintAgreesWithAutoMove ==
    \A h \in {getHint(state)} :
        /\ IsCardMove(h) =>
              \A r \in {tryAutoMove(state, h.from.cardId)} :
                  /\ r.ret # JsNull
                  /\ r.ret.location = h.to.location
                  /\ r.ret.pileIndex = h.to.pileIndex
        /\ (IsAction(h, "draw") \/ IsAction(h, "reset")) =>
              drawFromStock(state).ret = JsTrue

\* the hint moves the waste card to a tableau pile, and two piles would
\* accept the card
C33_Witness ==
    /\ IsCardMove(getHint(state))
    /\ getHint(state).from.location = "waste"
    /\ getHint(state).to.location = "tableau"
    /\ Cardinality({i \in Tableaus :
                       canPlaceOnTableau(state, Last(state.waste), i)}) > 1

\* C34: in every reachable state getHint() returns null if and only if
\* hasValidMoves() returns false.
C34_HintIffValidMoves ==
    (getHint(state) = JsNull) <=> ~hasValidMoves(state)

\* C35: in every reachable state where hasValidMoves() returns false no
\* command changes the game: drawFromStock() returns false and
\* tryAutoMove(cardId) returns null for every card id, the cards lying on
\* a foundation included.
C35_DeadStateSound ==
    ~hasValidMoves(state) =>
        /\ drawFromStock(state).ret = JsFalse
        /\ \A cardId \in CardIds : tryAutoMove(state, cardId).ret = JsNull

\* the first dragged card: the card of the element pressed at pointer-down
firstDragged == createCard(drag.draggedCardElements[1][1], drag.draggedCardElements[1][2])

\* C36: Drag.onPointerUp calls Game.moveCards only when the gesture passed
\* the drag threshold, a drop target was found and the first dragged card is
\* legal on it (on a foundation only when it is dragged alone); several
\* cards are never dropped on a foundation; a rejected drop leaves the game
\* state and its history unchanged.
C36_OnlyValidatedMoves ==
    [][call'.op = "pointerup" =>
          /\ call'.moved =>
                /\ drag.moved
                /\ call'.to \in DropTargets
                /\ IF call'.to.type = "foundation"
                   THEN /\ Len(drag.draggedCardElements) = 1
                        /\ canPlaceOnFoundation(state, firstDragged, call'.to.index)
                        /\ Len(state'.foundations[call'.to.index]) =
                              Len(state.foundations[call'.to.index]) + 1
                   ELSE canPlaceOnTableau(state, firstDragged, call'.to.index)
          /\ (drag.moved /\ ~call'.moved) => state' = state]_vars

\* C37: a pointer gesture on a card results in at most one state-changing
\* engine command, a moveCards only if the pointer moved beyond
\* DRAG_THRESHOLD, a tryAutoMove only if it never did, never both; and after
\* pointer-up the drag state is reset (isDragging and moved false,
\* draggedCardElements empty, sourceLocation null).
C37_OneGestureOneCommand ==
    [][call'.op = "pointerup" =>
          /\ state'.moves <= state.moves + 1
          /\ Len(state'.history) <= Len(state.history) + 1
          /\ call'.moved => drag.moved
          /\ (~call'.moved /\ state' # state) => ~drag.moved
          /\ drag' = NoDrag]_vars

\* C38: a pointer-down on the card shown on the stock pile, the top card of
\* the stock, is handled by Drag.onPointerDown itself, which calls
\* Game.drawFromStock() for it: whenever the stock is not empty such a
\* pointer-down draws cards to the waste.
C38_StockPointerDown ==
    [][(/\ call'.op = "pointerdown"
        /\ Len(state.stock) > 0
        /\ call'.cardId = Last(state.stock).id)
          => /\ Len(state'.stock) < Len(state.stock)
             /\ Len(state'.waste) > Len(state.waste)]_vars

\* C39: once the win animation runs, then unless it is dismissed with
\* stop(), in the end the win modal is shown with the score and the moves
\* of the game (the completion callback App.triggerWin stored has run).
C39_WinModalFollowsAnimation ==
    WinAnimation.isRunning ~> (call.op = "stop" \/ modal = showWinModal(state))

=============================================================================
